---------------------------- MODULE Spec2Model ----------------------------
(***************************************************************************)
(* A model of the scan pipelines of thandie-agent.                         *)
(*                                                                         *)
(*   - the interactive viewer (TUIApp: startScan, cancelScan and the scan  *)
(*     worker performScanWithProgress), built on a tview application whose *)
(*     QueueUpdateDraw hands a closure to the event loop and returns after *)
(*     the event loop has run it;                                          *)
(*   - the channel-based scan (RunScanWithTUI / runScanWithTUI): a worker  *)
(*     goroutine running ScanDirectoriesWithMetadata and three buffered    *)
(*     channels read by a bubbletea program (scanTUIWrapper and Model).    *)
(*                                                                         *)
(* Strings are sequences of one-character strings, so that prefix tests,   *)
(* joins and formatting are computed and not assumed.  A Go slice is a     *)
(* record [isNil, elems]: a nil slice and an empty slice are different     *)
(* values.                                                                 *)
(***************************************************************************)
EXTENDS Integers, Sequences, FiniteSets, Bags, TLC

(***************************************************************************)
(* Bounds of the model.                                                    *)
(***************************************************************************)
\* Largest number of entries in the listing of the workspace root.
MaxEntries == 2
\* Number of scans the viewer's user may start ('s').
MaxScans == 2
\* Number of entries of the root in the slow-consumer specification.
FillEntries == 49
BusyEntries == 6
ListEntries == 3
MaxSaves == 3
PrefixDigits == 1
\* the largest number of entries of a status map
MaxChanged == 7
\* the largest number of configured remotes
MaxRemotes == 3
\* the largest number of scans started from the main view
MaxMainScans == 2
MaxKeys == 3
MaxSavers == 2

(***************************************************************************)
(* Program constants.                                                      *)
(***************************************************************************)
ProgressChanCap == 10
LogChanCap == 100
CompleteChanCap == 1
MaxStatusLines == 5

(***************************************************************************)
(* Go slices.                                                              *)
(***************************************************************************)
NilSlice == [isNil |-> TRUE, elems |-> <<>>]

MakeSlice(s) == [isNil |-> FALSE, elems |-> s]

\* append(s, x): the result is never nil.
AppendSlice(s, x) == [isNil |-> FALSE, elems |-> Append(s.elems, x)]

SliceLen(s) == Len(s.elems)

(***************************************************************************)
(* Strings and paths.                                                      *)
(***************************************************************************)
\* strings.HasPrefix(dirName, ".")  /  len(dirName) > 0 && dirName[0] == '.'
HasDotPrefix(dirName) == Len(dirName) > 0 /\ dirName[1] = "."

\* filepath.Join(path, dirName) for a dirName without separators.
JoinPath(path, dirName) == path \o <<"/">> \o dirName

RECURSIVE LastSlash(_, _)
LastSlash(p, i) ==
    IF i = 0 THEN 0
    ELSE IF p[i] = "/" THEN i ELSE LastSlash(p, i - 1)

\* filepath.Base(dir) for a path that does not end in a separator.
Base(p) == SubSeq(p, LastSlash(p, Len(p)) + 1, Len(p))

Digits == <<"0", "1", "2", "3", "4", "5", "6", "7", "8", "9">>

RECURSIVE Itoa(_)
\* fmt's %d of a natural number.
Itoa(n) ==
    IF n < 10 THEN <<Digits[n + 1]>>
    ELSE Itoa(n \div 10) \o <<Digits[(n % 10) + 1]>>

WorkspaceRoot == <<"/", "w">>

OtherRoot == <<"/", "o">>

(***************************************************************************)
(* The Directory Enumerator.                                               *)
(*                                                                         *)
(* A listing is what os.ReadDir returns: a sequence of entries             *)
(* [name, isDir], in the order of the filesystem.                          *)
(***************************************************************************)
\* ignoreMap of ListTopLevelDirs and of performScanWithProgress.
IgnoreMap(ignoreDirs) == {ignoreDirs[k] : k \in 1..Len(ignoreDirs)}

\* ListSkips with the ignore map consulted only for names that the hidden
\* test did not let through.
ListSkips_HiddenBypass(e, ignoreDirs, includeHidden) ==
    \/ ~e.isDir
    \/ (~includeHidden /\ HasDotPrefix(e.name))
    \/ (e.name \in IgnoreMap(ignoreDirs) /\ ~(includeHidden /\ HasDotPrefix(e.name)))

\* ListSkips without the IsDir test.
ListSkips_FilesKept(e, ignoreDirs, includeHidden) ==
    \/ (~includeHidden /\ HasDotPrefix(e.name))
    \/ e.name \in IgnoreMap(ignoreDirs)

\* The three "continue" tests of the loop of ListTopLevelDirs.
ListSkips(e, ignoreDirs, includeHidden) ==
    \/ ~e.isDir
    \/ (~includeHidden /\ HasDotPrefix(e.name))
    \/ e.name \in IgnoreMap(ignoreDirs)

\* The loop of ListTopLevelDirs: the path of every entry that is not skipped
\* is appended, in the order of the entries, to dirs, which starts nil.
ListLoop(path, entries, ignoreDirs, includeHidden) ==
    LET kept == SelectSeq(entries,
                          LAMBDA e : ~ListSkips(e, ignoreDirs, includeHidden))
    IN  IF kept = <<>> THEN NilSlice
        ELSE MakeSlice([i \in 1..Len(kept) |-> JoinPath(path, kept[i].name)])

\* ListTopLevelDirs: readOk is the outcome of os.ReadDir.
ListTopLevelDirs(path, readOk, entries, ignoreDirs, includeHidden) ==
    IF ~readOk
    THEN [err |-> TRUE, dirs |-> NilSlice]
    ELSE [err |-> FALSE,
          dirs |-> ListLoop(path, entries, ignoreDirs, includeHidden)]

(***************************************************************************)
(* The Repository Metadata Extractor.                                      *)
(*                                                                         *)
(* A repository state is what go-git reports for one directory:            *)
(*   openOk       git.PlainOpen succeeds                                   *)
(*   remotesOk    repo.Remotes succeeds; remotes: [name, urls] in order    *)
(*   headOk       repo.Head succeeds; head: the reference name             *)
(*   worktreeOk   repo.Worktree succeeds                                   *)
(*   statusOk     worktree.Status succeeds; status: the entries            *)
(*                [file, staging, worktree] in the order in which the      *)
(*                range over the status map yields them                    *)
(***************************************************************************)
ZeroMetadata ==
    [IsGitRepo |-> FALSE, RemoteURL |-> <<>>, CurrentBranch |-> <<>>,
     HasUncommitted |-> FALSE, StatusSummary |-> <<>>]

Unmodified == " "

\* Status.IsClean of go-git: every entry is unmodified in index and worktree.
IsClean(status) ==
    \A k \in 1..Len(status) :
        status[k].worktree = Unmodified /\ status[k].staging = Unmodified

\* ReferenceName.Short of go-git for a branch reference.
Short(ref) == IF Len(ref) > 0 /\ ref[1] = "refs/heads/" THEN Tail(ref) ELSE ref

RECURSIVE OriginURL(_, _)
\* The loop over the remotes: the first URL of a remote named origin that
\* has one.
OriginURL(remotes, k) ==
    IF k > Len(remotes) THEN <<>>
    ELSE IF remotes[k].name = <<"origin">> /\ Len(remotes[k].urls) > 0
         THEN remotes[k].urls[1]
         ELSE OriginURL(remotes, k + 1)

RemoteURLOf(remotes) ==
    LET fromOrigin == OriginURL(remotes, 1)
    IN  IF fromOrigin = <<>> /\ Len(remotes) > 0
        THEN IF Len(remotes[1].urls) > 0 THEN remotes[1].urls[1] ELSE <<>>
        ELSE fromOrigin

\* fmt.Sprintf("%s%s %s", stagingCode, worktreeCode, file)
StatusLine(f) == <<f.staging, f.worktree, " ">> \o f.file

RECURSIVE StatusLines(_, _, _)
\* The loop over the status map, stopped after MaxStatusLines entries.
StatusLines(status, k, count) ==
    IF k > Len(status) \/ count >= MaxStatusLines THEN <<>>
    ELSE <<StatusLine(status[k])>> \o StatusLines(status, k + 1, count + 1)

RECURSIVE JoinLines(_)
\* strings.Join(statusLines, "; ")
JoinLines(lines) ==
    IF Len(lines) = 0 THEN <<>>
    ELSE IF Len(lines) = 1 THEN lines[1]
    ELSE lines[1] \o <<";", " ">> \o JoinLines(Tail(lines))

\* StatusSummaryOf with the count of the remaining files added as soon as
\* the cap is reached.
StatusSummaryOf_SuffixAtCap(status) ==
    IF ~IsClean(status)
    THEN LET statusLines == StatusLines(status, 1, 0)
         IN  IF Len(statusLines) > 0
             THEN JoinLines(statusLines) \o
                  (IF Len(status) >= MaxStatusLines
                   THEN <<" ... (">> \o Itoa(Len(status) - MaxStatusLines) \o <<" more)">>
                   ELSE <<>>)
             ELSE <<"clean">>
    ELSE <<"clean">>

StatusSummaryOf(status) ==
    IF ~IsClean(status)
    THEN LET statusLines == StatusLines(status, 1, 0)
         IN  IF Len(statusLines) > 0
             THEN JoinLines(statusLines) \o
                  (IF Len(status) > MaxStatusLines
                   THEN <<" ... (">> \o Itoa(Len(status) - MaxStatusLines) \o <<" more)">>
                   ELSE <<>>)
             ELSE <<"clean">>
    ELSE <<"clean">>

\* CollectGitMetadata returning as soon as repo.Head fails.
CollectGitMetadata_StopsAtHead(repo) ==
    IF ~repo.openOk
    THEN [ZeroMetadata EXCEPT !.IsGitRepo = FALSE]
    ELSE IF ~repo.headOk
    THEN [ZeroMetadata EXCEPT
             !.IsGitRepo = TRUE,
             !.RemoteURL = IF repo.remotesOk THEN RemoteURLOf(repo.remotes) ELSE <<>>]
    ELSE [IsGitRepo |-> TRUE,
          RemoteURL |-> IF repo.remotesOk THEN RemoteURLOf(repo.remotes) ELSE <<>>,
          CurrentBranch |-> Short(repo.head),
          HasUncommitted |->
              IF repo.worktreeOk /\ repo.statusOk THEN ~IsClean(repo.status) ELSE FALSE,
          StatusSummary |->
              IF repo.worktreeOk /\ repo.statusOk THEN StatusSummaryOf(repo.status)
              ELSE <<>>]

\* CollectGitMetadata with HasUncommitted set whenever the status map has an
\* entry.
CollectGitMetadata_AnyEntry(repo) ==
    IF ~repo.openOk
    THEN [ZeroMetadata EXCEPT !.IsGitRepo = FALSE]
    ELSE [IsGitRepo |-> TRUE,
          RemoteURL |-> IF repo.remotesOk THEN RemoteURLOf(repo.remotes) ELSE <<>>,
          CurrentBranch |-> IF repo.headOk THEN Short(repo.head) ELSE <<>>,
          HasUncommitted |->
              IF repo.worktreeOk /\ repo.statusOk THEN Len(repo.status) > 0 ELSE FALSE,
          StatusSummary |->
              IF repo.worktreeOk /\ repo.statusOk THEN StatusSummaryOf(repo.status)
              ELSE <<>>]

\* CollectGitMetadata: the returned error is always nil.
CollectGitMetadata(repo) ==
    IF ~repo.openOk
    THEN [ZeroMetadata EXCEPT !.IsGitRepo = FALSE]
    ELSE [IsGitRepo |-> TRUE,
          RemoteURL |-> IF repo.remotesOk THEN RemoteURLOf(repo.remotes) ELSE <<>>,
          CurrentBranch |-> IF repo.headOk THEN Short(repo.head) ELSE <<>>,
          HasUncommitted |->
              IF repo.worktreeOk /\ repo.statusOk THEN ~IsClean(repo.status) ELSE FALSE,
          StatusSummary |->
              IF repo.worktreeOk /\ repo.statusOk THEN StatusSummaryOf(repo.status)
              ELSE <<>>]

\* ScanDirectoriesWithMetadata without a callback, as a function of the
\* listing and of what CollectGitMetadata returns for each directory:
\* infos := make([]DirectoryInfo, len(dirs)), then infos[i] for each dirs[i].
ScanDirectoriesWithMetadata(path, readOk, entries, ignoreDirs, includeHidden, metadata) ==
    LET l == ListTopLevelDirs(path, readOk, entries, ignoreDirs, includeHidden)
    IN  IF l.err
        THEN [err |-> TRUE, infos |-> NilSlice]
        ELSE [err |-> FALSE,
              infos |-> [isNil |-> FALSE,
                         elems |-> [k \in 1..Len(l.dirs.elems) |->
                                       [Path |-> l.dirs.elems[k], hasMeta |-> TRUE,
                                        GitMetadata |-> metadata[k]]]]]

\* The repository states the directories of a scanned root are drawn from.
RepoNone ==
    [openOk |-> FALSE, remotesOk |-> FALSE, remotes |-> <<>>, headOk |-> FALSE,
     head |-> <<>>, worktreeOk |-> FALSE, statusOk |-> FALSE, status |-> <<>>]

RepoClean ==
    [openOk |-> TRUE, remotesOk |-> TRUE,
     remotes |-> <<[name |-> <<"origin">>, urls |-> <<<<"u">>>>]>>,
     headOk |-> TRUE, head |-> <<"refs/heads/", "m">>,
     worktreeOk |-> TRUE, statusOk |-> TRUE, status |-> <<>>]

RepoDirtyNoHead ==
    [openOk |-> TRUE, remotesOk |-> FALSE, remotes |-> <<>>,
     headOk |-> FALSE, head |-> <<>>,
     worktreeOk |-> TRUE, statusOk |-> TRUE,
     status |-> <<[file |-> <<"x">>, staging |-> " ", worktree |-> "M"]>>]

RepoStates == {RepoNone, RepoClean, RepoDirtyNoHead}

\* The k-th changed file of a worktree: modified, added or untracked.
ChangedFile(k) ==
    [file |-> <<"f">> \o Itoa(k),
     staging |-> CASE k % 3 = 1 -> " " [] k % 3 = 2 -> "A" [] OTHER -> "?",
     worktree |-> CASE k % 3 = 1 -> "M" [] k % 3 = 2 -> " " [] OTHER -> "?"]

\* A file that go-git lists as unmodified in the index and in the worktree.
UnmodifiedFile == [file |-> <<"u">>, staging |-> Unmodified, worktree |-> Unmodified]

Reverse(seq) == [k \in 1..Len(seq) |-> seq[Len(seq) + 1 - k]]

\* The status maps worktree.Status reports, each in an order in which the
\* range over the map may yield its entries: up to MaxChanged changed files,
\* alone or with an unmodified file, and maps of unmodified files only.
StatusMaps ==
    LET changed == {[k \in 1..n |-> ChangedFile(k)] : n \in 0..MaxChanged}
    IN  changed \cup {Reverse(c) : c \in changed}
                \cup {<<UnmodifiedFile>> \o c : c \in changed}
                \cup {c \o <<UnmodifiedFile>> : c \in changed}

RemoteNames == {<<"origin">>, <<"upstream">>, <<"fork">>}

\* The URL lists of a remote: none, one, or a fetch and a push URL.
URLLists == {<<>>, << <<"u">> >>, << <<"v">>, <<"u">> >>}

\* The remotes repo.Remotes reports: at most MaxRemotes remotes of different
\* names, in any order (the order of a range over the map of the config).
RemoteLists ==
    UNION {{l \in [1..n -> [name : RemoteNames, urls : URLLists]] :
                \A i, j \in 1..n : i # j => l[i].name # l[j].name}
           : n \in 0..MaxRemotes}

\* A repository with a remote, a branch and one modified file.
RepoDirty ==
    [RepoClean EXCEPT !.status = <<ChangedFile(1)>>]

\* What go-git reports for a repository when the steps fail as the flags
\* say: a failed step reports nothing, and nothing is asked of a repository
\* that did not open or of a worktree that was not found.
Outcome(base, openOk, remotesOk, headOk, worktreeOk, statusOk) ==
    IF ~openOk THEN RepoNone
    ELSE [openOk |-> TRUE,
          remotesOk |-> remotesOk,
          remotes |-> IF remotesOk THEN base.remotes ELSE <<>>,
          headOk |-> headOk,
          head |-> IF headOk THEN base.head ELSE <<>>,
          worktreeOk |-> worktreeOk,
          statusOk |-> worktreeOk /\ statusOk,
          status |-> IF worktreeOk /\ statusOk THEN base.status ELSE <<>>]

\* Every combination of failures of the steps on a clean and on a dirty
\* repository.
FailureCases ==
    {Outcome(base, o, r, h, w, t) :
        base \in {RepoClean, RepoDirty}, o \in BOOLEAN, r \in BOOLEAN, h \in BOOLEAN,
        w \in BOOLEAN, t \in BOOLEAN}

\* The repositories CollectGitMetadata is applied to.
GitRepos ==
    {[RepoClean EXCEPT !.remotes = l] : l \in RemoteLists}
        \cup {[RepoClean EXCEPT !.status = t] : t \in StatusMaps}
        \cup FailureCases

\* DirectoryInfo{Path: dir, GitMetadata: gitMetadata}; its GitMetadata is a
\* pointer: hasMeta is FALSE for nil.
DirectoryInfo(path, md) == [Path |-> path, hasMeta |-> TRUE, GitMetadata |-> md]

ZeroDirectoryInfo == [Path |-> <<>>, hasMeta |-> FALSE, GitMetadata |-> ZeroMetadata]

(***************************************************************************)
(* The Result Cache: one file per workspace path.                          *)
(***************************************************************************)
Workspaces == {WorkspaceRoot, OtherRoot}

\* The leading hex digits of sha256("/w") = d1bb8ca3... and of
\* sha256("/o") = 9e1f197b...
KnownDigests ==
    [p \in Workspaces |->
        IF p = WorkspaceRoot THEN <<"d", "1", "b">> ELSE <<"9", "e", "1">>]

\* sha256.Sum256: the digest, as hex digits, of each path string in use.
VARIABLE sha256

\* hashStr[:16] of getCacheFilePath: the leading PrefixDigits digits of the
\* digest of the exact path string.
HashPrefix(workspacePath) == SubSeq(sha256[workspacePath], 1, PrefixDigits)

\* getCacheFilePath applied to the cleaned path: a trailing separator is
\* dropped before the path is hashed.
getCacheFilePath_Cleaned(workspacePath) ==
    LET n == Len(workspacePath)
        cleaned == IF n > 1 /\ workspacePath[n] = "/"
                   THEN SubSeq(workspacePath, 1, n - 1) ELSE workspacePath
    IN  <<"scan_">> \o HashPrefix(cleaned) \o <<".json">>

\* getCacheFilePath naming one file whatever the workspace path is.
getCacheFilePath_OneFile(workspacePath) ==
    <<"scan_">> \o HashPrefix(WorkspaceRoot) \o <<".json">>

\* getCacheFilePath, relative to the cache directory.
getCacheFilePath(workspacePath) ==
    <<"scan_">> \o HashPrefix(workspacePath) \o <<".json">>

CacheFilePaths == {getCacheFilePath(p) : p \in Workspaces}

\* A file of the cache directory: data is the JSON text at its start, <<>>
\* when there is no whole text, and size its length.
NoFile == [exists |-> FALSE, data |-> <<>>, size |-> 0]

\* A Go string is a sequence of bytes: InvalidByte stands for a byte that is
\* not part of a valid UTF-8 encoding (a file name may hold one), and
\* ReplacementChar for the encoding of U+FFFD.
InvalidByte == "xFF"

ReplacementChar == "uFFFD"

\* json.Marshal of a string: the value is coerced to valid UTF-8, each
\* invalid byte replaced by U+FFFD.
MarshalString(str) ==
    [k \in 1..Len(str) |-> IF str[k] = InvalidByte THEN ReplacementChar ELSE str[k]]

\* json.Unmarshal into a string, the input being valid UTF-8.
UnmarshalString(j) == j

\* json.Marshal of a GitMetadata: the omitempty fields are left out when zero.
MarshalMetadata(md) ==
    ("is_git_repo" :> md.IsGitRepo)
    @@ (IF md.RemoteURL # <<>> THEN "remote_url" :> MarshalString(md.RemoteURL)
        ELSE <<>>)
    @@ (IF md.CurrentBranch # <<>>
        THEN "current_branch" :> MarshalString(md.CurrentBranch) ELSE <<>>)
    @@ (IF md.HasUncommitted THEN "has_uncommitted" :> TRUE ELSE <<>>)
    @@ (IF md.StatusSummary # <<>>
        THEN "status_summary" :> MarshalString(md.StatusSummary) ELSE <<>>)

\* json.Marshal of a DirectoryInfo: git_metadata is left out for a nil pointer.
MarshalInfo(info) ==
    ("path" :> MarshalString(info.Path))
    @@ (IF info.hasMeta THEN "git_metadata" :> MarshalMetadata(info.GitMetadata)
        ELSE <<>>)

\* json.Marshal of a []string: null for a nil slice, an array otherwise.
MarshalStrings(s) ==
    [null |-> s.isNil, array |-> [k \in 1..Len(s.elems) |-> MarshalString(s.elems[k])]]

\* json.Marshal of a []DirectoryInfo: null for a nil slice, an array otherwise.
MarshalInfos(s) ==
    [null |-> s.isNil, array |-> [k \in 1..Len(s.elems) |-> MarshalInfo(s.elems[k])]]

\* MarshalScanResult with the deprecated list built from the records of
\* repositories only.
MarshalScanResult_ReposOnly(workspacePath, now, directoryInfos) ==
    LET repoRecords == SelectSeq(directoryInfos.elems,
                                 LAMBDA d : d.hasMeta /\ d.GitMetadata.IsGitRepo)
    IN  [workspace_path |-> MarshalString(workspacePath),
         scanned_at |-> now,
         directories |->
             MarshalStrings(MakeSlice([k \in 1..Len(repoRecords) |-> repoRecords[k].Path])),
         count |-> SliceLen(directoryInfos),
         directory_infos |-> MarshalInfos(directoryInfos)]

\* The ScanResult built by SaveScanResultWithMetadata, marshalled.
MarshalScanResult(workspacePath, now, directoryInfos) ==
    [workspace_path |-> MarshalString(workspacePath),
     scanned_at |-> now,
     \* directories := make([]string, len(directoryInfos)) is never nil
     directories |->
         MarshalStrings(MakeSlice([k \in 1..SliceLen(directoryInfos) |->
                                       directoryInfos.elems[k].Path])),
     count |-> SliceLen(directoryInfos),
     directory_infos |-> MarshalInfos(directoryInfos)]

Field(obj, key, zero) == IF key \in DOMAIN obj THEN obj[key] ELSE zero

UnmarshalMetadata(obj) ==
    [IsGitRepo |-> Field(obj, "is_git_repo", FALSE),
     RemoteURL |-> UnmarshalString(Field(obj, "remote_url", <<>>)),
     CurrentBranch |-> UnmarshalString(Field(obj, "current_branch", <<>>)),
     HasUncommitted |-> Field(obj, "has_uncommitted", FALSE),
     StatusSummary |-> UnmarshalString(Field(obj, "status_summary", <<>>))]

UnmarshalInfo(obj) ==
    [Path |-> UnmarshalString(Field(obj, "path", <<>>)),
     hasMeta |-> "git_metadata" \in DOMAIN obj,
     GitMetadata |-> IF "git_metadata" \in DOMAIN obj
                     THEN UnmarshalMetadata(obj["git_metadata"])
                     ELSE ZeroMetadata]

\* json.Unmarshal into a []string: null leaves the slice nil.
UnmarshalStrings(j) ==
    IF j.null THEN NilSlice
    ELSE MakeSlice([k \in 1..Len(j.array) |-> UnmarshalString(j.array[k])])

\* json.Unmarshal into a []DirectoryInfo: null leaves the slice nil.
UnmarshalInfos(j) ==
    IF j.null THEN NilSlice
    ELSE MakeSlice([k \in 1..Len(j.array) |-> UnmarshalInfo(j.array[k])])

\* json.Unmarshal into a ScanResult.
UnmarshalScanResult(data) ==
    [WorkspacePath |-> UnmarshalString(data.workspace_path),
     ScannedAt |-> data.scanned_at,
     Directories |-> UnmarshalStrings(data.directories),
     Count |-> data.count,
     DirectoryInfos |-> UnmarshalInfos(data.directory_infos)]

\* os.WriteFile opens the file with O_TRUNC and then writes: it succeeds,
\* fails before the file is opened, or fails after it was cut to length 0.
WriteOutcomes == {"ok", "openFailed", "writeFailed"}

\* A file that was cut to length 0 or holds only the beginning of the text.
Truncated == [exists |-> TRUE, data |-> <<>>, size |-> 0]

\* The length of a marshalled ScanResult: it grows with the number of
\* records.
TextSize(data) == 1 + Len(data.directory_infos.array)

\* f.Write(data) on a file opened for writing: the text is written from
\* offset 0 and what the file held beyond its end stays.
WriteFrom0(f, data) ==
    [exists |-> TRUE, data |-> data,
     size |-> IF f.size > TextSize(data) THEN f.size ELSE TextSize(data)]

\* json.Unmarshal accepts the bytes of a file: one whole text and nothing
\* after it.
Decodes(f) == f.data # <<>> /\ f.size = TextSize(f.data)

\* The file store after SaveScanResultWithMetadata; write is the outcome of
\* os.WriteFile.
SaveScanResultWithMetadata(files, workspacePath, now, directoryInfos, write) ==
    CASE write = "ok" ->
             [files EXCEPT ![getCacheFilePath(workspacePath)] =
                  WriteFrom0(Truncated,
                             MarshalScanResult(workspacePath, now, directoryInfos))]
      [] write = "writeFailed" ->
             [files EXCEPT ![getCacheFilePath(workspacePath)] = Truncated]
      [] OTHER -> files

\* SaveScanResult (deprecated): the paths become records without metadata.
SaveScanResult(files, workspacePath, now, directories, write) ==
    SaveScanResultWithMetadata(
        files, workspacePath, now,
        MakeSlice([k \in 1..SliceLen(directories) |->
                      [ZeroDirectoryInfo EXCEPT !.Path = directories.elems[k]]]),
        write)

\* The errors of LoadScanResult: the text fmt.Errorf starts with and the
\* error it wraps with %w, "nil" when it wraps none.
NotFoundError ==
    [msg |-> "no cached scan result found for workspace: ", wraps |-> "nil"]

ReadError(cause) == [msg |-> "failed to read cache file: ", wraps |-> cause]

DecodeError == [msg |-> "failed to unmarshal cache file: ", wraps |-> "json.SyntaxError"]

NoError == [msg |-> "", wraps |-> "nil"]

\* LoadScanResult with the os.Stat test for a missing file left out.
LoadScanResult_NoStat(files, workspacePath, readErr) ==
    LET f == files[getCacheFilePath(workspacePath)]
    IN  IF ~f.exists
        THEN [err |-> TRUE, error |-> ReadError("ENOENT"), result |-> <<>>]
        ELSE IF readErr # "nil"
        THEN [err |-> TRUE, error |-> ReadError(readErr), result |-> <<>>]
        ELSE IF ~Decodes(f)
        THEN [err |-> TRUE, error |-> DecodeError, result |-> <<>>]
        ELSE [err |-> FALSE, error |-> NoError, result |-> UnmarshalScanResult(f.data)]

\* LoadScanResult: readErr is the error of os.ReadFile on an existing file,
\* "nil" for none.
LoadScanResult(files, workspacePath, readErr) ==
    LET f == files[getCacheFilePath(workspacePath)]
    IN  IF ~f.exists
        THEN [err |-> TRUE, error |-> NotFoundError, result |-> <<>>]
        ELSE IF readErr # "nil"
        THEN [err |-> TRUE, error |-> ReadError(readErr), result |-> <<>>]
        ELSE IF ~Decodes(f)
        THEN [err |-> TRUE, error |-> DecodeError, result |-> <<>>]
        ELSE [err |-> FALSE, error |-> NoError, result |-> UnmarshalScanResult(f.data)]

\* HasCachedResult: os.Stat returns no error. statErr is the error of
\* os.Stat on an existing file, "nil" for none.
HasCachedResult(files, workspacePath, statErr) ==
    files[getCacheFilePath(workspacePath)].exists /\ statErr = "nil"

\* The filename order of os.ReadDir, for the names of two cache files: they
\* differ in a hex digit of the digest.
HexValue(d) ==
    CHOOSE k \in 1..16 :
        <<"0", "1", "2", "3", "4", "5", "6", "7",
          "8", "9", "a", "b", "c", "d", "e", "f">>[k] = d

SortsBefore(a, b) ==
    \E k \in 1..Len(a) :
        /\ \A j \in 1..(k - 1) : a[j] = b[j]
        /\ a[k] # b[k]
        /\ HexValue(a[k]) < HexValue(b[k])

\* ClearCache: every file of the cache directory is a .json file. readDirOk
\* is the outcome of os.ReadDir and failAt the file os.Remove fails on, <<>>
\* for none: the files before it in the order of the listing are gone, the
\* others are left. It returns whether it failed and the files left.
ClearCache(files, readDirOk, failAt) ==
    IF ~readDirOk
    THEN [err |-> TRUE, files |-> files]
    ELSE IF failAt \in DOMAIN files /\ files[failAt].exists
    THEN [err |-> TRUE,
          files |-> [f \in DOMAIN files |->
                        IF SortsBefore(f, failAt) THEN NoFile ELSE files[f]]]
    ELSE [err |-> FALSE, files |-> [f \in DOMAIN files |-> NoFile]]

(***************************************************************************)
(* The state.                                                              *)
(***************************************************************************)
VARIABLES
    mode,           \* which front end runs: "viewer", "chan", "scantui", "list", "cache"
    entries,        \* the listing of the workspace root
    ignoreDirs,     \* cfg.Scanner.IgnoreDirs
    includeHidden,  \* cfg.Scanner.IncludeHidden
    repos,          \* the repository states the directories of the root may be in
    cacheFiles,     \* the files of the cache directory
    clock,          \* time.Now
    \* TUIApp
    scanning,       \* t.scanning
    page,           \* the front page of t.pages
    scanCancel,     \* t.scanCancel: the run whose cancel function it holds, 0 for nil
    uiBlocked,      \* the event loop is inside QueueUpdateDraw, called by a handler
    updates,        \* the update queue of the tview application
    directories,    \* t.directories
    filteredDirs,   \* t.filteredDirs
    nruns,          \* number of scans started
    runs,           \* per scan: the worker goroutine, its context and its progress view
    \* RunScanWithTUI
    cw,             \* the worker goroutine of RunScanWithTUI
    progressChan,   \* make(chan ProgressMsg, 10)
    logChan,        \* make(chan LogMsg, 100)
    completeChan,   \* make(chan ScanCompleteMsg, 1)
    closed,         \* the three channels are closed
    m,              \* the Model of the scan view
    waiting,        \* the channels a wait command of scanTUIWrapper is receiving from
    quit,           \* the bubbletea program has been told to quit
    ret,            \* what RunScanWithTUI returned
    hist,           \* counts of what the worker did (history)
    \* ScanTUI
    st,             \* the worker goroutine of ScanTUI and its progress view
    \* the cache used on its own
    ops,            \* the save and load calls made so far and their results
    conc            \* processes that save and load one cache entry at a time

envVars == <<mode, entries, ignoreDirs, includeHidden, repos, cacheFiles, clock>>

viewerVars ==
    <<scanning, page, scanCancel, uiBlocked, updates, directories, filteredDirs,
      nruns, runs>>

\* The fields of TUIApp that the worker's progress updates leave alone.
uiVars == <<scanning, page, scanCancel, uiBlocked, directories, filteredDirs, nruns>>

chanVars ==
    <<cw, progressChan, logChan, completeChan, closed, m, waiting, quit, ret, hist>>

sideVars == <<st, ops, sha256, conc>>

vars == <<envVars, viewerVars, chanVars, sideVars>>

Runs == 1..MaxScans

\* []string{".git", "node_modules", "vendor"}
DefaultIgnoreDirs == << <<".", "g">>, <<"n">>, <<"v">> >>

\* The entries a root can hold, in the filename order os.ReadDir returns them.
EntryPool ==
    <<[name |-> <<".", "h">>, isDir |-> TRUE],
      [name |-> <<"a">>, isDir |-> TRUE],
      [name |-> <<"f">>, isDir |-> FALSE],
      [name |-> <<"v">>, isDir |-> TRUE]>>

\* The listings of at most n entries: os.ReadDir returns the entries of the
\* directory sorted by filename, so a listing is a subsequence of EntryPool.
Listings(n) ==
    UNION {{[i \in 1..k |-> EntryPool[ix[i]]] :
                ix \in {f \in [1..k -> 1..Len(EntryPool)] :
                            \A i, j \in 1..k : i < j => f[i] < f[j]}} : k \in 0..n}

\* What an earlier scan of the root left in the cache.
PriorInfos ==
    MakeSlice(<<DirectoryInfo(JoinPath(WorkspaceRoot, <<"p">>),
                              CollectGitMetadata(RepoNone))>>)

PriorFiles ==
    [f \in CacheFilePaths |->
        IF f = getCacheFilePath(WorkspaceRoot)
        THEN WriteFrom0(Truncated, MarshalScanResult(WorkspaceRoot, 0, PriorInfos))
        ELSE NoFile]

IdleRun ==
    [pc |-> "idle", waiting |-> FALSE, ctxErr |-> FALSE, idx |-> 1,
     dirInfos |-> NilSlice, repoCount |-> 0, uncommittedCount |-> 0,
     gitMetadata |-> ZeroMetadata, saveOutcome |-> "none",
     text |-> <<>>, saveCalls |-> 0, dirsBefore |-> NilSlice, wrote |-> FALSE,
     err |-> FALSE, cancelPc |-> "none"]

ViewerInit ==
    /\ scanning = FALSE
    /\ page = "main"
    /\ scanCancel = 0
    /\ uiBlocked = FALSE
    /\ updates = <<>>
    \* loadDirectories: t.directories = result.DirectoryInfos
    /\ directories = LoadScanResult(PriorFiles, WorkspaceRoot, "nil").result.DirectoryInfos
    /\ filteredDirs = directories
    /\ nruns = 0
    /\ runs = [r \in Runs |-> IdleRun]

EnvInit ==
    /\ sha256 = KnownDigests
    /\ entries \in Listings(MaxEntries)
    /\ ignoreDirs = DefaultIgnoreDirs
    /\ includeHidden \in BOOLEAN
    /\ repos = RepoStates
    /\ cacheFiles = PriorFiles
    /\ clock = 1

(***************************************************************************)
(* TUIApp: the event loop.                                                 *)
(***************************************************************************)
\* startScan, reached from the 's' key on the main page.
startScan ==
    /\ mode = "viewer"
    /\ ~uiBlocked
    /\ page = "main"
    /\ ~scanning
    /\ nruns < MaxScans
    /\ nruns' = nruns + 1
    /\ scanning' = TRUE
    /\ scanCancel' = nruns + 1
    /\ page' = "scan"
    /\ runs' = [runs EXCEPT ![nruns + 1] =
                    [IdleRun EXCEPT !.pc = "L581", !.dirsBefore = directories]]
    /\ UNCHANGED <<envVars, sideVars, uiBlocked, updates, directories, filteredDirs, chanVars>>

\* cancelScan switching back to the main page and clearing t.scanning itself
\* instead of queuing an update.
cancelScan_Direct ==
    /\ mode = "viewer"
    /\ ~uiBlocked
    /\ page = "scan"
    /\ IF scanCancel # 0
       THEN /\ runs' = [runs EXCEPT ![scanCancel].ctxErr = TRUE,
                                    ![scanCancel].cancelPc = runs[scanCancel].pc]
            /\ scanCancel' = 0
       ELSE UNCHANGED <<runs, scanCancel>>
    /\ page' = "main"
    /\ scanning' = FALSE
    /\ UNCHANGED <<envVars, sideVars, updates, uiBlocked, directories, filteredDirs, nruns,
                   chanVars>>

\* cancelScan, reached from the ESC key on the scan page.  It runs on the
\* event loop, so its QueueUpdateDraw waits for an update that only the
\* event loop could run.
cancelScan ==
    /\ mode = "viewer"
    /\ ~uiBlocked
    /\ page = "scan"
    /\ IF scanCancel # 0
       THEN /\ runs' = [runs EXCEPT ![scanCancel].ctxErr = TRUE,
                                    ![scanCancel].cancelPc = runs[scanCancel].pc]
            /\ scanCancel' = 0
       ELSE UNCHANGED <<runs, scanCancel>>
    /\ updates' = Append(updates, [owner |-> 0, kind |-> "cancelDone", line |-> <<>>])
    /\ uiBlocked' = TRUE
    /\ UNCHANGED <<envVars, sideVars, scanning, page, directories, filteredDirs, nruns, chanVars>>

\* applyFilter with an empty filter string.
applyFilter(dirs) == dirs

\* The event loop runs the update at the head of the queue and releases the
\* goroutine that queued it.
ExecUpdate ==
    /\ mode = "viewer"
    /\ ~uiBlocked
    /\ updates # <<>>
    /\ LET u == Head(updates)
           released == IF u.owner = 0 THEN runs
                       ELSE [runs EXCEPT ![u.owner].waiting = FALSE]
       IN  /\ updates' = Tail(updates)
           /\ runs' = IF u.kind = "text"
                      THEN [released EXCEPT ![u.owner].text = Append(@, u.line)]
                      ELSE released
           /\ page' = IF u.kind = "cancelDone" \/ (u.kind = "scanDone" /\ page = "scan")
                      THEN "main" ELSE page
           /\ scanning' = IF u.kind \in {"cancelDone", "scanDone"} THEN FALSE
                          ELSE scanning
           /\ filteredDirs' = IF u.kind = "applyFilter" THEN applyFilter(directories)
                              ELSE filteredDirs
    /\ UNCHANGED <<envVars, sideVars, scanCancel, uiBlocked, directories, nruns, chanVars>>

(***************************************************************************)
(* TUIApp: the scan worker, one goroutine per startScan.                   *)
(***************************************************************************)
\* QueueUpdateDraw from goroutine r: the closure is queued and r waits until
\* the event loop has run it.
QueueUpdateDraw(rs, q, r, kind, line) ==
    [rs |-> [rs EXCEPT ![r].waiting = TRUE],
     q |-> Append(q, [owner |-> r, kind |-> kind, line |-> line])]

\* updateProgress(message) of performScanWithProgress: nothing is queued once
\* the context is cancelled.
updateProgress(rs, q, r, line) ==
    IF rs[r].ctxErr THEN [rs |-> rs, q |-> q]
    ELSE QueueUpdateDraw(rs, q, r, "text", line)

Runnable(r, label) == mode = "viewer" /\ runs[r].pc = label /\ ~runs[r].waiting

\* A step that only calls updateProgress(line) and goes on to label next.
ProgressStep(r, label, line, next) ==
    /\ Runnable(r, label)
    /\ LET up == updateProgress(runs, updates, r, line)
       IN  /\ runs' = [up.rs EXCEPT ![r].pc = next]
           /\ updates' = up.q
    /\ UNCHANGED <<envVars, sideVars, uiVars, chanVars>>

Line(kind, name) == [kind |-> kind, name |-> name]

\* The "[yellow]Scan canceled[white]" update followed by return.
CancelReturn(rs, q, r) ==
    LET up == updateProgress(rs, q, r, Line("canceled", <<>>))
    IN  [rs |-> [up.rs EXCEPT ![r].pc = "L534"], q |-> up.q]

W_Header(r) == ProgressStep(r, "L581", Line("header", WorkspaceRoot), "L582")

W_HeaderBlank(r) == ProgressStep(r, "L582", Line("blank", <<>>), "L593")

\* os.ReadDir(t.workspacePath)
W_ReadDir(r) ==
    /\ Runnable(r, "L593")
    /\ \E readOk \in BOOLEAN :
        IF readOk
        THEN /\ runs' = [runs EXCEPT ![r].pc = "L610", ![r].idx = 1]
             /\ UNCHANGED updates
        ELSE LET up == updateProgress(runs, updates, r, Line("error", <<>>))
             IN  /\ runs' = [up.rs EXCEPT ![r].pc = "L534", ![r].err = TRUE]
                 /\ updates' = up.q
    /\ UNCHANGED <<envVars, sideVars, uiVars, chanVars>>

\* The tests of the loop body that skip an entry.
InlineSkips(e, ignDirs, inclHidden) ==
    \/ ~e.isDir
    \/ (~inclHidden /\ Len(e.name) > 0 /\ e.name[1] = ".")
    \/ e.name \in IgnoreMap(ignDirs)

\* The head of the loop over the entries: the cancellation check and the
\* tests that skip an entry.
W_LoopHead(r) ==
    /\ Runnable(r, "L610")
    /\ IF runs[r].idx > Len(entries)
       THEN /\ runs' = [runs EXCEPT ![r].pc = "L677"]
            /\ UNCHANGED updates
       ELSE IF runs[r].ctxErr
       THEN LET c == CancelReturn(runs, updates, r)
            IN  runs' = c.rs /\ updates' = c.q
       ELSE IF InlineSkips(entries[runs[r].idx], ignoreDirs, includeHidden)
       THEN /\ runs' = [runs EXCEPT ![r].idx = @ + 1]
            /\ UNCHANGED updates
       ELSE /\ runs' = [runs EXCEPT ![r].pc = "L636"]
            /\ UNCHANGED updates
    /\ UNCHANGED <<envVars, sideVars, uiVars, chanVars>>

W_Scanning(r) ==
    ProgressStep(r, "L636", Line("scanning", entries[runs[r].idx].name), "L639")

\* "Check if canceled before collecting metadata"
W_CheckBeforeCollect(r) ==
    /\ Runnable(r, "L639")
    /\ IF runs[r].ctxErr
       THEN LET c == CancelReturn(runs, updates, r)
            IN  runs' = c.rs /\ updates' = c.q
       ELSE /\ runs' = [runs EXCEPT ![r].pc = "L645"]
            /\ UNCHANGED updates
    /\ UNCHANGED <<envVars, sideVars, uiVars, chanVars>>

\* scanner.CollectGitMetadata(dirPath)
W_Collect(r) ==
    /\ Runnable(r, "L645")
    /\ \E repo \in repos :
        runs' = [runs EXCEPT ![r].pc = "L652",
                             ![r].gitMetadata = CollectGitMetadata(repo)]
    /\ UNCHANGED <<envVars, sideVars, uiVars, updates, chanVars>>

\* W_CheckAfterCollect counting every directory as a repository.
W_CheckAfterCollect_CountsAll(r) ==
    /\ Runnable(r, "L652")
    /\ IF runs[r].ctxErr
       THEN LET c == CancelReturn(runs, updates, r)
            IN  runs' = c.rs /\ updates' = c.q
       ELSE LET md == runs[r].gitMetadata
                dirPath == JoinPath(WorkspaceRoot, entries[runs[r].idx].name)
            IN  /\ runs' = [runs EXCEPT
                               ![r].pc = "L672",
                               ![r].dirInfos = AppendSlice(@, DirectoryInfo(dirPath, md)),
                               ![r].repoCount = @ + 1,
                               ![r].uncommittedCount =
                                   IF md.IsGitRepo /\ md.HasUncommitted THEN @ + 1 ELSE @]
                /\ UNCHANGED updates
    /\ UNCHANGED <<envVars, sideVars, uiVars, chanVars>>

\* "Check if canceled after collecting metadata", then the append and the
\* statistics.
W_CheckAfterCollect(r) ==
    /\ Runnable(r, "L652")
    /\ IF runs[r].ctxErr
       THEN LET c == CancelReturn(runs, updates, r)
            IN  runs' = c.rs /\ updates' = c.q
       ELSE LET md == runs[r].gitMetadata
                dirPath == JoinPath(WorkspaceRoot, entries[runs[r].idx].name)
            IN  /\ runs' = [runs EXCEPT
                               ![r].pc = "L672",
                               ![r].dirInfos = AppendSlice(@, DirectoryInfo(dirPath, md)),
                               ![r].repoCount = IF md.IsGitRepo THEN @ + 1 ELSE @,
                               ![r].uncommittedCount =
                                   IF md.IsGitRepo /\ md.HasUncommitted THEN @ + 1 ELSE @]
                /\ UNCHANGED updates
    /\ UNCHANGED <<envVars, sideVars, uiVars, chanVars>>

W_Completed(r) ==
    ProgressStep(r, "L672", Line("completed", entries[runs[r].idx].name), "L673")

\* updateProgress("") at the end of the loop body, then the next entry.
W_CompletedBlank(r) ==
    /\ Runnable(r, "L673")
    /\ LET up == updateProgress(runs, updates, r, Line("blank", <<>>))
       IN  /\ runs' = [up.rs EXCEPT ![r].pc = "L610", ![r].idx = @ + 1]
           /\ updates' = up.q
    /\ UNCHANGED <<envVars, sideVars, uiVars, chanVars>>

\* W_CheckBeforeSave without its test of ctx.Err(): the worker goes on to the
\* save whatever the context says.
W_CheckBeforeSave_NoTest(r) ==
    /\ Runnable(r, "L677")
    /\ runs' = [runs EXCEPT ![r].pc = "L683"]
    /\ UNCHANGED <<envVars, sideVars, uiVars, updates, chanVars>>

\* "Check if canceled before saving"
W_CheckBeforeSave(r) ==
    /\ Runnable(r, "L677")
    /\ IF runs[r].ctxErr
       THEN LET c == CancelReturn(runs, updates, r)
            IN  runs' = c.rs /\ updates' = c.q
       ELSE /\ runs' = [runs EXCEPT ![r].pc = "L683"]
            /\ UNCHANGED updates
    /\ UNCHANGED <<envVars, sideVars, uiVars, chanVars>>

W_Saving(r) == ProgressStep(r, "L683", Line("saving", <<>>), "L684")

\* cache.New() and SaveScanResultWithMetadata.
W_Save(r) ==
    /\ Runnable(r, "L684")
    /\ \E newOk \in BOOLEAN, write \in WriteOutcomes :
        IF newOk
        THEN /\ cacheFiles' = SaveScanResultWithMetadata(cacheFiles, WorkspaceRoot, clock,
                                                         runs[r].dirInfos, write)
             /\ clock' = clock + 1
             /\ runs' = [runs EXCEPT ![r].pc = "L688",
                                     ![r].saveCalls = @ + 1,
                                     ![r].saveOutcome =
                                         IF write = "ok" THEN "saved" ELSE "saveFailed"]
        ELSE /\ write = "ok"
             /\ runs' = [runs EXCEPT ![r].pc = "L693", ![r].saveOutcome = "newFailed"]
             /\ UNCHANGED <<cacheFiles, clock>>
    /\ UNCHANGED <<mode, entries, ignoreDirs, includeHidden, repos, sideVars, uiVars,
                   updates, chanVars>>

\* "Warning: Failed to save cache" or "Results saved to cache"
W_SaveLine(r) ==
    ProgressStep(r, "L688",
                 Line(IF runs[r].saveOutcome = "saved" THEN "saved" ELSE "warning", <<>>),
                 "L693")

W_SaveBlank(r) == ProgressStep(r, "L693", Line("blank", <<>>), "L696")

\* "Check if canceled before updating UI": return without a message.
W_CheckBeforeUI(r) ==
    /\ Runnable(r, "L696")
    /\ runs' = [runs EXCEPT ![r].pc = IF runs[r].ctxErr THEN "L534" ELSE "L701"]
    /\ UNCHANGED <<envVars, sideVars, uiVars, updates, chanVars>>

\* t.directories = dirInfos; t.filteredDirs = t.directories, written by the
\* worker goroutine.
W_SetDirectories(r) ==
    /\ Runnable(r, "L701")
    /\ directories' = runs[r].dirInfos
    /\ filteredDirs' = runs[r].dirInfos
    /\ runs' = [runs EXCEPT ![r].pc = "L703", ![r].wrote = TRUE]
    /\ UNCHANGED <<envVars, sideVars, scanning, page, scanCancel, uiBlocked, nruns, updates,
                   chanVars>>

\* t.app.QueueUpdateDraw(func() { t.applyFilter() })
W_QueueApplyFilter(r) ==
    /\ Runnable(r, "L703")
    /\ LET up == QueueUpdateDraw(runs, updates, r, "applyFilter", <<>>)
       IN  /\ runs' = [up.rs EXCEPT ![r].pc = "L719"]
           /\ updates' = up.q
    /\ UNCHANGED <<envVars, sideVars, uiVars, chanVars>>

\* The scan summary with its three counts.
Summary(r) ==
    [kind |-> "summary",
     name |-> <<SliceLen(runs[r].dirInfos), runs[r].repoCount,
                runs[r].uncommittedCount>>]

W_Summary(r) == ProgressStep(r, "L719", Summary(r), "L534")

\* The goroutine of startScan after performScanWithProgress has returned.
W_SwitchBack(r) ==
    /\ Runnable(r, "L534")
    /\ IF ~runs[r].ctxErr
       THEN LET up == QueueUpdateDraw(runs, updates, r, "scanDone", <<>>)
            IN  /\ runs' = [up.rs EXCEPT ![r].pc = "done"]
                /\ updates' = up.q
       ELSE /\ runs' = [runs EXCEPT ![r].pc = "done"]
            /\ UNCHANGED updates
    /\ UNCHANGED <<envVars, sideVars, uiVars, chanVars>>


(***************************************************************************)
(* RunScanWithTUI: the messages and the channels.                          *)
(***************************************************************************)
ProgressMsg(current, total, message) ==
    [Current |-> current, Total |-> total, Message |-> message]

ScanCompleteMsg(results, hasError) == [Results |-> results, Error |-> hasError]

\* TrySend on a channel that hands out the newest message first.
TrySend_NewestFirst(ch, cap, msg) == IF Len(ch) < cap THEN <<msg>> \o ch ELSE ch

\* select { case ch <- msg: default: }: the message is dropped when the
\* buffer is full.
TrySend(ch, cap, msg) == IF Len(ch) < cap THEN Append(ch, msg) ELSE ch

\* The three log lines RunScanWithTUI sends before it starts the worker.
InitialLogs(wsPath) ==
    << <<"Scanning workspace: ">> \o wsPath,
       <<"Ignore directories: ">>,
       <<"Include hidden: ">> >>

\* NewModel
NewModel ==
    [current |-> 0, total |-> 0, currentMsg |-> <<>>, logs |-> EmptyBag,
     scanning |-> TRUE, completed |-> FALSE, error |-> FALSE, results |-> NilSlice]

\* addLog: the buffer is kept as a bag, the order of its lines is not
\* modelled; fewer than 1000 lines are ever added.
addLog(model, msg) == [model EXCEPT !.logs = @ (+) SetToBag({msg})]

\* Model.Update for a ProgressMsg.
UpdateProgressMsg(model, msg) ==
    LET m1 == [model EXCEPT !.current = msg.Current, !.total = msg.Total,
                            !.currentMsg = msg.Message]
    IN  IF msg.Message # <<>> THEN addLog(m1, msg.Message) ELSE m1

\* Model.Update for a LogMsg.
UpdateLogMsg(model, msg) == addLog(model, msg)

\* Model.Update for a ScanCompleteMsg; the command it returns is tea.Quit.
UpdateScanCompleteMsg(model, msg) ==
    LET m1 == [model EXCEPT !.scanning = FALSE, !.completed = TRUE]
    IN  IF msg.Error
        THEN addLog([m1 EXCEPT !.error = TRUE], <<"Error: ">>)
        ELSE addLog([m1 EXCEPT !.results = msg.Results],
                    <<"Scan completed: ">> \o Itoa(SliceLen(msg.Results))
                        \o <<" directories found">>)

IdleWorker ==
    [pc |-> "L526", err |-> FALSE, dirs |-> NilSlice, i |-> 1, infos |-> NilSlice,
     saveOutcome |-> "none"]

NoHistory ==
    [progressSent |-> 0, progressDropped |-> 0, logSent |-> 0, logDropped |-> 0,
     completeSent |-> 0, sentAfterComplete |-> 0, saveCalls |-> 0,
     \* the calls of progressCallback, the messages each channel accepted and
     \* the messages Update was given, in order
     emitted |-> <<>>, lEmitted |-> InitialLogs(WorkspaceRoot),
     pSent |-> <<>>, lSent |-> InitialLogs(WorkspaceRoot),
     pRecv |-> <<>>, lRecv |-> <<>>]

ChanInit ==
    /\ cw = IdleWorker
    /\ progressChan = <<>>
    /\ logChan = InitialLogs(WorkspaceRoot)
    /\ completeChan = <<>>
    /\ closed = FALSE
    /\ m = NewModel
    \* scanTUIWrapper.Init: waitForProgress, waitForLog, waitForComplete
    /\ waiting = {"progress", "log", "complete"}
    /\ quit = FALSE
    /\ ret = [returned |-> FALSE, results |-> NilSlice, err |-> FALSE]
    /\ hist = NoHistory

(***************************************************************************)
(* RunScanWithTUI: the worker goroutine, which runs                        *)
(* ScanDirectoriesWithMetadata with progressCallback.                      *)
(***************************************************************************)
\* progressCallback(current, total, message): two non-blocking sends.
progressCallback(pch, lch, h, current, total, message) ==
    LET pOk == Len(pch) < ProgressChanCap
        lOk == Len(lch) < LogChanCap
    IN  [pch |-> TrySend(pch, ProgressChanCap, ProgressMsg(current, total, message)),
         lch |-> IF message # <<>> THEN TrySend(lch, LogChanCap, message) ELSE lch,
         h |-> [h EXCEPT
                   !.progressSent = IF pOk THEN @ + 1 ELSE @,
                   !.progressDropped = IF pOk THEN @ ELSE @ + 1,
                   !.logSent = IF message # <<>> /\ lOk THEN @ + 1 ELSE @,
                   !.logDropped = IF message # <<>> /\ ~lOk THEN @ + 1 ELSE @,
                   !.emitted = Append(@, ProgressMsg(current, total, message)),
                   !.lEmitted = IF message # <<>> THEN Append(@, message) ELSE @,
                   !.pSent = IF pOk THEN Append(@, ProgressMsg(current, total, message))
                             ELSE @,
                   !.lSent = IF message # <<>> /\ lOk THEN Append(@, message) ELSE @,
                   !.sentAfterComplete =
                       IF h.completeSent > 0 THEN @ + 1 ELSE @]]

AtC(label) == mode = "chan" /\ cw.pc = label

\* C_List with the error of ListTopLevelDirs ignored: the scan goes on with
\* the nil slice.
C_List_ErrIgnored ==
    /\ AtC("L526")
    /\ \E readOk \in BOOLEAN :
        LET l == ListTopLevelDirs(WorkspaceRoot, readOk, entries, ignoreDirs,
                                  includeHidden)
        IN  cw' = [cw EXCEPT !.pc = "L171", !.err = l.err, !.dirs = l.dirs]
    /\ UNCHANGED <<envVars, sideVars, viewerVars, progressChan, logChan, completeChan, closed,
                   m, waiting, quit, ret, hist>>

\* dirs, err := ListTopLevelDirs(path, ignoreDirs, includeHidden)
C_List ==
    /\ AtC("L526")
    /\ \E readOk \in BOOLEAN :
        LET l == ListTopLevelDirs(WorkspaceRoot, readOk, entries, ignoreDirs,
                                  includeHidden)
        IN  cw' = [cw EXCEPT !.pc = IF l.err THEN "L528" ELSE "L171",
                             !.err = l.err, !.dirs = l.dirs]
    /\ UNCHANGED <<envVars, sideVars, viewerVars, progressChan, logChan, completeChan, closed,
                   m, waiting, quit, ret, hist>>

\* C_Found reporting the number of entries of the listing instead of
\* len(dirs).
C_Found_CountsEntries ==
    /\ AtC("L171")
    /\ LET total == SliceLen(cw.dirs)
           cb == progressCallback(progressChan, logChan, hist, 0, Len(entries),
                                  <<"Found ">> \o Itoa(Len(entries))
                                      \o <<" directories to scan">>)
       IN  /\ progressChan' = cb.pch
           /\ logChan' = cb.lch
           /\ hist' = cb.h
           /\ cw' = [cw EXCEPT !.pc = "L175", !.i = 1,
                               !.infos = MakeSlice([k \in 1..total |-> ZeroDirectoryInfo])]
    /\ UNCHANGED <<envVars, sideVars, viewerVars, completeChan, closed, m, waiting, quit, ret>>

\* progressCallback(0, total, "Found %d directories to scan"), then
\* infos := make([]DirectoryInfo, len(dirs))
C_Found ==
    /\ AtC("L171")
    /\ LET total == SliceLen(cw.dirs)
           cb == progressCallback(progressChan, logChan, hist, 0, total,
                                  <<"Found ">> \o Itoa(total)
                                      \o <<" directories to scan">>)
       IN  /\ progressChan' = cb.pch
           /\ logChan' = cb.lch
           /\ hist' = cb.h
           /\ cw' = [cw EXCEPT !.pc = "L175", !.i = 1,
                               !.infos = MakeSlice([k \in 1..total |-> ZeroDirectoryInfo])]
    /\ UNCHANGED <<envVars, sideVars, viewerVars, completeChan, closed, m, waiting, quit, ret>>

\* The head of the loop over dirs and progressCallback(i, total, "Scanning: ...").
C_Scanning ==
    /\ AtC("L175")
    /\ IF cw.i > SliceLen(cw.dirs)
       THEN /\ cw' = [cw EXCEPT !.pc = "L533"]
            /\ UNCHANGED <<progressChan, logChan, hist>>
       ELSE LET cb == progressCallback(progressChan, logChan, hist, cw.i - 1,
                                       SliceLen(cw.dirs),
                                       <<"Scanning: ">> \o Base(cw.dirs.elems[cw.i]))
            IN  /\ progressChan' = cb.pch
                /\ logChan' = cb.lch
                /\ hist' = cb.h
                /\ cw' = [cw EXCEPT !.pc = "L181"]
    /\ UNCHANGED <<envVars, sideVars, viewerVars, completeChan, closed, m, waiting, quit, ret>>

\* C_Collect recording a directory only when it is a repository: infos[i]
\* keeps its zero value otherwise.
C_Collect_ReposOnly ==
    /\ AtC("L181")
    /\ \E repo \in repos :
        LET md == CollectGitMetadata(repo)
        IN  cw' = [cw EXCEPT !.pc = "L196",
                             !.infos.elems[cw.i] =
                                 IF md.IsGitRepo THEN DirectoryInfo(cw.dirs.elems[cw.i], md)
                                 ELSE @]
    /\ UNCHANGED <<envVars, sideVars, viewerVars, progressChan, logChan, completeChan,
                   closed, m, waiting, quit, ret, hist>>

\* gitMetadata, err := CollectGitMetadata(dir); infos[i] = DirectoryInfo{...}
C_Collect ==
    /\ AtC("L181")
    /\ \E repo \in repos :
        cw' = [cw EXCEPT !.pc = "L196",
                         !.infos.elems[cw.i] =
                             DirectoryInfo(cw.dirs.elems[cw.i], CollectGitMetadata(repo))]
    /\ UNCHANGED <<envVars, sideVars, viewerVars, progressChan, logChan, completeChan, closed,
                   m, waiting, quit, ret, hist>>

\* C_Completed counting from one instead of zero: progressCallback(i+2, ...).
C_Completed_OneAhead ==
    /\ AtC("L196")
    /\ LET cb == progressCallback(progressChan, logChan, hist, cw.i + 1,
                                  SliceLen(cw.dirs),
                                  <<"Completed: ">> \o Base(cw.dirs.elems[cw.i]))
       IN  /\ progressChan' = cb.pch
           /\ logChan' = cb.lch
           /\ hist' = cb.h
           /\ cw' = [cw EXCEPT !.pc = "L175", !.i = @ + 1]
    /\ UNCHANGED <<envVars, sideVars, viewerVars, completeChan, closed, m, waiting, quit, ret>>

\* progressCallback(i+1, total, "Completed: ...")
C_Completed ==
    /\ AtC("L196")
    /\ LET cb == progressCallback(progressChan, logChan, hist, cw.i,
                                  SliceLen(cw.dirs),
                                  <<"Completed: ">> \o Base(cw.dirs.elems[cw.i]))
       IN  /\ progressChan' = cb.pch
           /\ logChan' = cb.lch
           /\ hist' = cb.h
           /\ cw' = [cw EXCEPT !.pc = "L175", !.i = @ + 1]
    /\ UNCHANGED <<envVars, sideVars, viewerVars, completeChan, closed, m, waiting, quit, ret>>

\* cache.New() and SaveScanResultWithMetadata(wsPath, dirInfos)
C_Save ==
    /\ AtC("L533")
    /\ \E newOk \in BOOLEAN, write \in WriteOutcomes :
        IF newOk
        THEN /\ cacheFiles' = SaveScanResultWithMetadata(cacheFiles, WorkspaceRoot, clock,
                                                         cw.infos, write)
             /\ clock' = clock + 1
             /\ cw' = [cw EXCEPT !.pc = "L535",
                                 !.saveOutcome = IF write = "ok" THEN "saved" ELSE "saveFailed"]
             /\ hist' = [hist EXCEPT !.saveCalls = @ + 1]
        ELSE /\ write = "ok"
             /\ cw' = [cw EXCEPT !.pc = "L535", !.saveOutcome = "newFailed"]
             /\ UNCHANGED <<cacheFiles, clock, hist>>
    /\ UNCHANGED <<mode, entries, ignoreDirs, includeHidden, repos, sideVars, viewerVars,
                   progressChan,
                   logChan, completeChan, closed, m, waiting, quit, ret>>

\* The log line that follows the save.
SaveLog(outcome, infos) ==
    CASE outcome = "newFailed" -> <<"Warning: failed to initialize cache: ">>
      [] outcome = "saveFailed" -> <<"Warning: failed to save scan results to cache: ">>
      [] OTHER -> <<"Scan results cached: ">> \o Itoa(SliceLen(infos)) \o <<" directories">>

\* logChan <- LogMsg(...): a send that waits while the buffer is full.
C_SaveLog ==
    /\ AtC("L535")
    /\ Len(logChan) < LogChanCap
    /\ logChan' = Append(logChan, SaveLog(cw.saveOutcome, cw.infos))
    /\ hist' = [hist EXCEPT !.logSent = @ + 1,
                             !.lSent = Append(@, SaveLog(cw.saveOutcome, cw.infos)),
                             !.lEmitted = Append(@, SaveLog(cw.saveOutcome, cw.infos)),
                             !.sentAfterComplete =
                                 IF hist.completeSent > 0 THEN @ + 1 ELSE @]
    /\ cw' = [cw EXCEPT !.pc = "L544"]
    /\ UNCHANGED <<envVars, sideVars, viewerVars, progressChan, completeChan, closed, m, waiting,
                   quit, ret>>

\* C_Complete with the return after the error message left out: the worker
\* falls through to the save.
C_Complete_NoReturn ==
    /\ mode = "chan"
    /\ cw.pc \in {"L528", "L544"}
    /\ Len(completeChan) < CompleteChanCap
    /\ completeChan' = Append(completeChan,
                              IF cw.pc = "L528" THEN ScanCompleteMsg(NilSlice, TRUE)
                              ELSE ScanCompleteMsg(cw.infos, FALSE))
    /\ hist' = [hist EXCEPT !.completeSent = @ + 1]
    /\ cw' = [cw EXCEPT !.pc = IF cw.pc = "L528" THEN "L533" ELSE "L506"]
    /\ UNCHANGED <<envVars, sideVars, viewerVars, progressChan, logChan, closed, m, waiting,
                   quit, ret>>

\* completeChan <- ScanCompleteMsg{Error: err} or ScanCompleteMsg{Results: dirInfos}
C_Complete ==
    /\ mode = "chan"
    /\ cw.pc \in {"L528", "L544"}
    /\ Len(completeChan) < CompleteChanCap
    /\ completeChan' = Append(completeChan,
                              IF cw.pc = "L528" THEN ScanCompleteMsg(NilSlice, TRUE)
                              ELSE ScanCompleteMsg(cw.infos, FALSE))
    /\ hist' = [hist EXCEPT !.completeSent = @ + 1]
    /\ cw' = [cw EXCEPT !.pc = "L506"]
    /\ UNCHANGED <<envVars, sideVars, viewerVars, progressChan, logChan, closed, m, waiting,
                   quit, ret>>

\* The deferred close of completeChan, logChan and progressChan.
C_Close ==
    /\ AtC("L506")
    /\ closed' = TRUE
    /\ cw' = [cw EXCEPT !.pc = "done"]
    /\ UNCHANGED <<envVars, sideVars, viewerVars, progressChan, logChan, completeChan, m,
                   waiting, quit, ret, hist>>

ChanWorker ==
    \/ C_List \/ C_Found \/ C_Scanning \/ C_Collect \/ C_Completed \/ C_Save
    \/ C_SaveLog \/ C_Complete \/ C_Close


(***************************************************************************)
(* RunScanWithTUI: the bubbletea program.  A wait command receives one     *)
(* message and hands it to Update, which issues the next wait command.     *)
(* The commands run in goroutines of their own and are not stopped when    *)
(* the program quits: each one still receiving then takes one more         *)
(* message, which nobody handles.                                          *)
(***************************************************************************)
\* What RunScanWithTUI returns once p.Run() has returned the final model:
\* GetError, then GetResults.
ReturnOf(model) ==
    IF model.error
    THEN [returned |-> TRUE, results |-> NilSlice, err |-> TRUE]
    ELSE [returned |-> TRUE, results |-> model.results, err |-> FALSE]

\* waitForProgress and the ProgressMsg case of scanTUIWrapper.Update
RecvProgress ==
    /\ mode = "chan"
    /\ ~quit
    /\ "progress" \in waiting
    /\ progressChan # <<>> \/ closed
    /\ IF progressChan # <<>>
       THEN /\ progressChan' = Tail(progressChan)
            /\ m' = UpdateProgressMsg(m, Head(progressChan))
            /\ hist' = [hist EXCEPT !.pRecv = Append(@, Head(progressChan))]
            /\ UNCHANGED waiting
       ELSE /\ waiting' = waiting \ {"progress"}
            /\ UNCHANGED <<progressChan, m, hist>>
    /\ UNCHANGED <<envVars, sideVars, viewerVars, cw, logChan, completeChan, closed, quit,
                   ret>>

\* waitForLog and the LogMsg case of scanTUIWrapper.Update
RecvLog ==
    /\ mode = "chan"
    /\ ~quit
    /\ "log" \in waiting
    /\ logChan # <<>> \/ closed
    /\ IF logChan # <<>>
       THEN /\ logChan' = Tail(logChan)
            /\ m' = UpdateLogMsg(m, Head(logChan))
            /\ hist' = [hist EXCEPT !.lRecv = Append(@, Head(logChan))]
            /\ UNCHANGED waiting
       ELSE /\ waiting' = waiting \ {"log"}
            /\ UNCHANGED <<logChan, m, hist>>
    /\ UNCHANGED <<envVars, sideVars, viewerVars, cw, progressChan, completeChan, closed, quit,
                   ret>>

\* waitForComplete and the ScanCompleteMsg case of scanTUIWrapper.Update:
\* no further wait command, Model.Update returns tea.Quit and p.Run()
\* returns the model.
RecvComplete ==
    /\ mode = "chan"
    /\ ~quit
    /\ "complete" \in waiting
    /\ completeChan # <<>>
    /\ waiting' = waiting \ {"complete"}
    /\ completeChan' = Tail(completeChan)
    /\ m' = UpdateScanCompleteMsg(m, Head(completeChan))
    /\ quit' = TRUE
    /\ ret' = ReturnOf(m')
    /\ UNCHANGED <<envVars, sideVars, viewerVars, cw, progressChan, logChan, closed, hist>>

\* The KeyMsg case of Model.Update for "q" and "ctrl+c": tea.Quit, after
\* which p.Run() returns the model as it is.
KeyQuit ==
    /\ mode = "chan"
    /\ ~quit
    /\ quit' = TRUE
    /\ ret' = ReturnOf(m)
    /\ UNCHANGED <<envVars, sideVars, viewerVars, cw, progressChan, logChan, completeChan, closed,
                   m, waiting, hist>>

\* p.Run() cannot start the program:
\* return nil, fmt.Errorf("TUI error: %w", err)
RunFails ==
    /\ mode = "chan"
    /\ ~quit
    /\ m = NewModel
    /\ quit' = TRUE
    /\ ret' = [returned |-> TRUE, results |-> NilSlice, err |-> TRUE]
    /\ UNCHANGED <<envVars, sideVars, viewerVars, cw, progressChan, logChan, completeChan, closed,
                   m, waiting, hist>>

\* A wait command left behind by a program that has quit: it receives one
\* message, or sees the channel closed, and its result is discarded.
LeftoverRecv(c) ==
    /\ mode = "chan"
    /\ quit
    /\ c \in waiting
    /\ waiting' = waiting \ {c}
    /\ CASE c = "progress" ->
              /\ progressChan # <<>> \/ closed
              /\ progressChan' = IF progressChan # <<>> THEN Tail(progressChan)
                                 ELSE progressChan
              /\ UNCHANGED <<logChan, completeChan>>
         [] c = "log" ->
              /\ logChan # <<>> \/ closed
              /\ logChan' = IF logChan # <<>> THEN Tail(logChan) ELSE logChan
              /\ UNCHANGED <<progressChan, completeChan>>
         [] c = "complete" ->
              /\ completeChan # <<>> \/ closed
              /\ completeChan' = IF completeChan # <<>> THEN Tail(completeChan)
                                 ELSE completeChan
              /\ UNCHANGED <<progressChan, logChan>>
    /\ UNCHANGED <<envVars, sideVars, viewerVars, cw, closed, m, quit, ret, hist>>

Leftover == \E c \in {"progress", "log", "complete"} : LeftoverRecv(c)

ChanNext ==
    \/ ChanWorker
    \/ RecvProgress \/ RecvLog \/ RecvComplete
    \/ KeyQuit \/ RunFails \/ Leftover

Worker(r) ==
    \/ W_Header(r) \/ W_HeaderBlank(r) \/ W_ReadDir(r) \/ W_LoopHead(r)
    \/ W_Scanning(r) \/ W_CheckBeforeCollect(r) \/ W_Collect(r)
    \/ W_CheckAfterCollect(r) \/ W_Completed(r) \/ W_CompletedBlank(r)
    \/ W_CheckBeforeSave(r) \/ W_Saving(r) \/ W_Save(r) \/ W_SaveLine(r)
    \/ W_SaveBlank(r) \/ W_CheckBeforeUI(r) \/ W_SetDirectories(r)
    \/ W_QueueApplyFilter(r) \/ W_Summary(r) \/ W_SwitchBack(r)

ViewerNext == startScan \/ cancelScan \/ ExecUpdate \/ \E r \in Runs : Worker(r)


(***************************************************************************)
(* ScanTUI: the stand-alone scan view.  performScan runs in a goroutine of *)
(* its own and shows its progress through updateProgress, whose            *)
(* QueueUpdateDraw returns after the event loop of the view has run the    *)
(* update; once the user has stopped the view (ESC, 'q', Ctrl+C) no update *)
(* is run any more and the goroutine waits in its next updateProgress.     *)
(***************************************************************************)
IdleScanTUI ==
    [pc |-> "P103", stopped |-> FALSE, idx |-> 1, dirInfos |-> NilSlice,
     repoCount |-> 0, uncommittedCount |-> 0, gitMetadata |-> ZeroMetadata,
     saveOutcome |-> "none", text |-> <<>>, done |-> FALSE]

ScanTUIInit == st = IdleScanTUI

AtS(label) == mode = "scantui" /\ st.pc = label

\* s.updateProgress(line), then on to label next.
S_Progress(label, line, next) ==
    /\ AtS(label)
    /\ ~st.stopped
    /\ st' = [st EXCEPT !.pc = next, !.text = Append(@, line)]
    /\ UNCHANGED <<envVars, viewerVars, chanVars, ops, sha256, conc>>

\* app.Stop() from the input capture of the view.
S_Stop ==
    /\ mode = "scantui"
    /\ ~st.stopped
    /\ st' = [st EXCEPT !.stopped = TRUE]
    /\ UNCHANGED <<envVars, viewerVars, chanVars, ops, sha256, conc>>

S_Header == S_Progress("P103", Line("header", WorkspaceRoot), "P104")

S_HeaderBlank == S_Progress("P104", Line("blank", <<>>), "P115")

\* os.ReadDir(s.workspacePath); on failure the error line and s.done = true.
S_ReadDir ==
    /\ AtS("P115")
    /\ \E readOk \in BOOLEAN :
        IF readOk
        THEN st' = [st EXCEPT !.pc = "P133", !.idx = 1]
        ELSE /\ ~st.stopped
             /\ st' = [st EXCEPT !.pc = "end", !.done = TRUE,
                                 !.text = Append(@, Line("error", <<>>))]
    /\ UNCHANGED <<envVars, viewerVars, chanVars, ops, sha256, conc>>

\* The head of the loop over the entries and the tests that skip an entry.
S_LoopHead ==
    /\ AtS("P133")
    /\ st' = IF st.idx > Len(entries) THEN [st EXCEPT !.pc = "P182"]
             ELSE IF InlineSkips(entries[st.idx], ignoreDirs, includeHidden)
             THEN [st EXCEPT !.idx = @ + 1]
             ELSE [st EXCEPT !.pc = "P153"]
    /\ UNCHANGED <<envVars, viewerVars, chanVars, ops, sha256, conc>>

S_Scanning == S_Progress("P153", Line("scanning", entries[st.idx].name), "P156")

\* CollectGitMetadata, the append to dirInfos and the statistics.
S_Collect ==
    /\ AtS("P156")
    /\ \E repo \in repos :
        LET md == CollectGitMetadata(repo)
            dirPath == JoinPath(WorkspaceRoot, entries[st.idx].name)
        IN  st' = [st EXCEPT
                      !.pc = "P177",
                      !.gitMetadata = md,
                      !.dirInfos = AppendSlice(@, DirectoryInfo(dirPath, md)),
                      !.repoCount = IF md.IsGitRepo THEN @ + 1 ELSE @,
                      !.uncommittedCount =
                          IF md.IsGitRepo /\ md.HasUncommitted THEN @ + 1 ELSE @]
    /\ UNCHANGED <<envVars, viewerVars, chanVars, ops, sha256, conc>>

S_Completed == S_Progress("P177", Line("completed", entries[st.idx].name), "P178")

\* updateProgress("") at the end of the loop body, then the next entry.
S_CompletedBlank ==
    /\ AtS("P178")
    /\ ~st.stopped
    /\ st' = [st EXCEPT !.pc = "P133", !.idx = @ + 1,
                        !.text = Append(@, Line("blank", <<>>))]
    /\ UNCHANGED <<envVars, viewerVars, chanVars, ops, sha256, conc>>

S_Saving == S_Progress("P182", Line("saving", <<>>), "P183")

\* cache.New() and SaveScanResultWithMetadata(s.workspacePath, dirInfos)
S_Save ==
    /\ AtS("P183")
    /\ \E newOk \in BOOLEAN, write \in WriteOutcomes :
        IF newOk
        THEN /\ cacheFiles' = SaveScanResultWithMetadata(cacheFiles, WorkspaceRoot, clock,
                                                         st.dirInfos, write)
             /\ clock' = clock + 1
             /\ st' = [st EXCEPT !.pc = "P187",
                                 !.saveOutcome = IF write = "ok" THEN "saved" ELSE "saveFailed"]
        ELSE /\ write = "ok"
             /\ st' = [st EXCEPT !.pc = "P192", !.saveOutcome = "newFailed"]
             /\ UNCHANGED <<cacheFiles, clock>>
    /\ UNCHANGED <<mode, entries, ignoreDirs, includeHidden, repos, viewerVars, chanVars,
                   ops, sha256, conc>>

\* "Warning: Failed to save cache" or "Results saved to cache"
S_SaveLine ==
    S_Progress("P187",
               Line(IF st.saveOutcome = "saved" THEN "saved" ELSE "warning", <<>>),
               "P192")

S_SaveBlank == S_Progress("P192", Line("blank", <<>>), "P206")

\* The scan summary with its three counts, then s.done = true.
S_Summary ==
    /\ AtS("P206")
    /\ ~st.stopped
    /\ st' = [st EXCEPT !.pc = "end", !.done = TRUE,
                        !.text = Append(@, [kind |-> "summary",
                                            name |-> <<SliceLen(st.dirInfos),
                                                       st.repoCount,
                                                       st.uncommittedCount>>])]
    /\ UNCHANGED <<envVars, viewerVars, chanVars, ops, sha256, conc>>

ScanTUINext ==
    \/ S_Stop \/ S_Header \/ S_HeaderBlank \/ S_ReadDir \/ S_LoopHead \/ S_Scanning
    \/ S_Collect \/ S_Completed \/ S_CompletedBlank \/ S_Saving \/ S_Save
    \/ S_SaveLine \/ S_SaveBlank \/ S_Summary


(***************************************************************************)
(* The specifications.                                                     *)
(***************************************************************************)
\* No process saves or loads concurrently.
NoConc == [path |-> <<>>, w |-> <<>>, l |-> <<>>, order |-> <<>>]

\* No save or load call has been made on the cache directly.
NoOps == [saves |-> 0, last |-> "none", path |-> <<>>, loaded |-> <<>>,
          saved |-> [w \in Workspaces |-> <<>>],
          readOk |-> FALSE, listed |-> <<>>, keys |-> <<>>, readErr |-> "nil",
          missing |-> FALSE, metadata |-> ZeroMetadata,
          \* MainModel: m.directories, and the view and the cache as they
          \* were when 's' started the scan
          view |-> NilSlice, before |-> NilSlice, cacheBefore |-> <<>>, scans |-> 0,
          \* the start of a viewer: cache.New succeeded, and how the start ended
          newOk |-> TRUE, exit |-> "none",
          \* HasCachedResult and ClearCache: what the call returned
          has |-> FALSE, cleared |-> FALSE]

Init ==
    /\ mode \in {"viewer", "chan", "scantui"}
    /\ EnvInit /\ ViewerInit /\ ChanInit /\ ScanTUIInit
    /\ ops = NoOps
    /\ conc = NoConc

Next == ViewerNext \/ ChanNext \/ ScanTUINext

Spec == Init /\ [][Next]_vars

\* A root with FillEntries plain directories.
FillListing ==
    [k \in 1..FillEntries |->
        [name |-> <<"d", Digits[(k \div 10) + 1], Digits[(k % 10) + 1]>>,
         isDir |-> TRUE]]

\* RunScanWithTUI on a large root, the user having pressed 'q' before the
\* worker's first step.
SlowInit ==
    /\ sha256 = KnownDigests
    /\ mode = "chan"
    /\ entries = FillListing
    /\ ignoreDirs = DefaultIgnoreDirs
    /\ includeHidden = FALSE
    /\ repos = {RepoNone}
    /\ cacheFiles = PriorFiles
    /\ clock = 1
    /\ ViewerInit
    /\ cw = IdleWorker
    /\ progressChan = <<>>
    /\ logChan = InitialLogs(WorkspaceRoot)
    /\ completeChan = <<>>
    /\ closed = FALSE
    /\ m = NewModel
    /\ waiting = {"progress", "log", "complete"}
    /\ quit = TRUE
    /\ ret = ReturnOf(NewModel)
    /\ hist = NoHistory
    /\ ScanTUIInit
    /\ ops = NoOps
    /\ conc = NoConc

SlowNext == ChanWorker \/ Leftover

SlowSpec == SlowInit /\ [][SlowNext]_vars

\* The ignore lists of cfg.Scanner.IgnoreDirs a call of ListTopLevelDirs is
\* given.
IgnoreLists ==
    {<<>>, DefaultIgnoreDirs, << <<".", "h">> >>, << <<"a">>, <<"a">> >>,
     << <<"f">> >>, << <<".", "h">>, <<"v">> >>}

\* A call of ListTopLevelDirs on a root, an ignore list and a flag.
ListInit ==
    /\ sha256 = KnownDigests
    /\ mode = "list"
    /\ entries \in Listings(ListEntries)
    /\ ignoreDirs \in IgnoreLists
    /\ includeHidden \in BOOLEAN
    /\ repos = RepoStates
    /\ cacheFiles = PriorFiles
    /\ clock = 1
    /\ ViewerInit /\ ChanInit /\ ScanTUIInit
    /\ ops = NoOps
    /\ conc = NoConc

\* dirs, err := ListTopLevelDirs(path, ignoreDirs, includeHidden)
ListDirs ==
    /\ mode = "list"
    /\ ops.last = "none"
    /\ \E readOk \in BOOLEAN :
        ops' = [ops EXCEPT !.last = "list",
                           !.path = WorkspaceRoot,
                           !.readOk = readOk,
                           !.listed = ListTopLevelDirs(WorkspaceRoot, readOk, entries,
                                                       ignoreDirs, includeHidden)]
    /\ UNCHANGED <<envVars, viewerVars, chanVars, st, sha256, conc>>

ListNext == ListDirs

ListSpec == ListInit /\ [][ListNext]_vars

\* A call of CollectGitMetadata on a directory in one of the repository
\* states.
GitInit ==
    /\ sha256 = KnownDigests
    /\ mode = "git"
    /\ entries = <<[name |-> <<"a">>, isDir |-> TRUE]>>
    /\ ignoreDirs = DefaultIgnoreDirs
    /\ includeHidden = FALSE
    /\ \E repo \in GitRepos : repos = {repo}
    /\ cacheFiles = PriorFiles
    /\ clock = 1
    /\ ViewerInit /\ ChanInit /\ ScanTUIInit
    /\ ops = NoOps
    /\ conc = NoConc

\* gitMetadata, err := CollectGitMetadata(dir)
Collect ==
    /\ mode = "git"
    /\ ops.last = "none"
    /\ \E repo \in repos :
        ops' = [ops EXCEPT !.last = "collect",
                           !.path = JoinPath(WorkspaceRoot, entries[1].name),
                           !.metadata = CollectGitMetadata(repo)]
    /\ UNCHANGED <<envVars, viewerVars, chanVars, st, sha256, conc>>

GitNext == Collect

GitSpec == GitInit /\ [][GitNext]_vars

\* RunScanWithTUI on a root whose directories may be in any of the failure
\* cases.
FailInit ==
    /\ sha256 = KnownDigests
    /\ mode = "chan"
    /\ entries \in Listings(1)
    /\ ignoreDirs = DefaultIgnoreDirs
    /\ includeHidden \in BOOLEAN
    /\ repos = FailureCases
    /\ cacheFiles = PriorFiles
    /\ clock = 1
    /\ ViewerInit /\ ChanInit /\ ScanTUIInit
    /\ ops = NoOps
    /\ conc = NoConc

FailNext == ChanNext

FailSpec == FailInit /\ [][FailNext]_vars

(***************************************************************************)
(* MainModel: the main view, started by runMainTUI with the records of the *)
(* cache entry, in which 's' runs RunScanWithTUI and then reloads the      *)
(* cache.                                                                  *)
(***************************************************************************)
\* runMainTUI has loaded the cache entry and the user has pressed 's':
\* RunScanWithTUI starts.
MainInit ==
    /\ sha256 = KnownDigests
    /\ mode = "chan"
    /\ entries \in Listings(1)
    /\ ignoreDirs = DefaultIgnoreDirs
    /\ includeHidden = FALSE
    /\ repos = {RepoNone}
    /\ cacheFiles = PriorFiles
    /\ clock = 1
    /\ ViewerInit /\ ChanInit /\ ScanTUIInit
    /\ ops = [NoOps EXCEPT
                 !.last = "scan",
                 !.scans = 1,
                 !.view = LoadScanResult(PriorFiles, WorkspaceRoot, "nil").result.DirectoryInfos,
                 !.before = LoadScanResult(PriorFiles, WorkspaceRoot, "nil").result.DirectoryInfos,
                 !.cacheBefore = PriorFiles]
    /\ conc = NoConc

\* runScan returns ScanTriggeredMsg whatever RunScanWithTUI returned; Update
\* answers with reloadCache, which sends CacheReloadedMsg with the records of
\* the cache entry, or nothing when cache.New or LoadScanResult fails.
M_ScanTriggered ==
    /\ mode = "chan"
    /\ ops.last = "scan"
    /\ ret.returned
    /\ \E newOk \in BOOLEAN, readErr \in {"nil", "EIO"} :
        LET l == LoadScanResult(cacheFiles, WorkspaceRoot, readErr)
        IN  ops' = [ops EXCEPT
                       !.last = "reload",
                       !.view = IF newOk /\ ~l.err THEN l.result.DirectoryInfos ELSE @]
    /\ UNCHANGED <<envVars, viewerVars, chanVars, st, sha256, conc>>

\* The 's' key of the main view, pressed again after the reload and once the
\* worker of the earlier scan has ended: RunScanWithTUI makes new channels,
\* a new Model and a new worker.
M_KeyScan ==
    /\ mode = "chan"
    /\ ops.last = "reload"
    /\ ops.scans < MaxMainScans
    /\ cw.pc = "done"
    /\ ops' = [ops EXCEPT !.last = "scan", !.scans = @ + 1, !.before = ops.view,
                          !.cacheBefore = cacheFiles]
    /\ cw' = IdleWorker
    /\ progressChan' = <<>>
    /\ logChan' = InitialLogs(WorkspaceRoot)
    /\ completeChan' = <<>>
    /\ closed' = FALSE
    /\ m' = NewModel
    /\ waiting' = {"progress", "log", "complete"}
    /\ quit' = FALSE
    /\ ret' = [returned |-> FALSE, results |-> NilSlice, err |-> FALSE]
    /\ hist' = NoHistory
    /\ \E l \in Listings(1) : entries' = l
    /\ UNCHANGED <<mode, ignoreDirs, includeHidden, repos, cacheFiles, clock, viewerVars,
                   st, sha256, conc>>

MainNext == ChanNext \/ M_ScanTriggered \/ M_KeyScan

MainSpec == MainInit /\ [][MainNext]_vars

(***************************************************************************)
(* The start of a viewer: TUIApp.Run calls loadDirectories, the main view  *)
(* is started by runMainTUI.                                               *)
(***************************************************************************)
\* What the cache directory may hold when a viewer starts: the entry of an
\* earlier scan, no entry, or an entry cut short by a failed write.
StartCaches ==
    {PriorFiles,
     [f \in CacheFilePaths |-> NoFile],
     [PriorFiles EXCEPT ![getCacheFilePath(WorkspaceRoot)] = Truncated]}

\* NewTUIApp has returned, or runMainTUI has been called: nothing is loaded.
StartInit ==
    /\ sha256 = KnownDigests
    /\ mode = "start"
    /\ entries \in Listings(MaxEntries)
    /\ ignoreDirs = DefaultIgnoreDirs
    /\ includeHidden \in BOOLEAN
    /\ repos = {RepoNone, RepoClean}
    /\ cacheFiles \in StartCaches
    /\ clock = 1
    /\ scanning = FALSE
    /\ page = "main"
    /\ scanCancel = 0
    /\ uiBlocked = FALSE
    /\ updates = <<>>
    /\ directories = NilSlice
    /\ filteredDirs = NilSlice
    /\ nruns = 0
    /\ runs = [r \in Runs |-> IdleRun]
    /\ ChanInit /\ ScanTUIInit
    /\ ops = NoOps
    /\ conc = NoConc

\* scanDirectories with t.directories left as it was.
scanDirectories_KeepsList(dirs, files, readOk, metadata, newOk, write) ==
    LET s == ScanDirectoriesWithMetadata(WorkspaceRoot, readOk, entries, ignoreDirs,
                                         includeHidden, metadata)
    IN  IF s.err
        THEN [err |-> TRUE, directories |-> dirs, files |-> files]
        ELSE [err |-> FALSE,
              directories |-> dirs,
              files |-> IF newOk
                        THEN SaveScanResultWithMetadata(files, WorkspaceRoot, clock,
                                                        s.infos, write)
                        ELSE files]

\* scanDirectories: dirs is t.directories, readOk the outcome of os.ReadDir,
\* metadata what CollectGitMetadata returns directory by directory, newOk
\* and write the outcomes of cache.New and of os.WriteFile. It returns
\* whether it failed, t.directories and the files of the cache.
scanDirectories(dirs, files, readOk, metadata, newOk, write) ==
    LET s == ScanDirectoriesWithMetadata(WorkspaceRoot, readOk, entries, ignoreDirs,
                                         includeHidden, metadata)
    IN  IF s.err
        THEN [err |-> TRUE, directories |-> dirs, files |-> files]
        ELSE [err |-> FALSE,
              directories |-> s.infos,
              files |-> IF newOk
                        THEN SaveScanResultWithMetadata(files, WorkspaceRoot, clock,
                                                        s.infos, write)
                        ELSE files]

\* The results CollectGitMetadata may give for the candidates of the root.
MetadataChoices ==
    [1..Len(SelectSeq(entries,
                      LAMBDA e : ~ListSkips(e, ignoreDirs, includeHidden)))
        -> {CollectGitMetadata(repo) : repo \in repos}]

\* loadDirectories: the records of the cache entry, or those of
\* scanDirectories when cache.New or LoadScanResult fails. TUIApp.Run
\* returns the error of scanDirectories.
loadDirectories ==
    /\ mode = "start"
    /\ ops.last = "none"
    /\ \E newOk, readOk, saveNewOk \in BOOLEAN, readErr \in {"nil", "EIO"},
          write \in WriteOutcomes, metadata \in MetadataChoices :
        LET l == LoadScanResult(cacheFiles, WorkspaceRoot, readErr)
            loaded == newOk /\ ~l.err
            s == scanDirectories(directories, cacheFiles, readOk, metadata, saveNewOk,
                                 write)
        IN  /\ directories' = IF loaded THEN l.result.DirectoryInfos ELSE s.directories
            /\ filteredDirs' = IF ~loaded /\ s.err THEN filteredDirs
                               ELSE applyFilter(directories')
            /\ cacheFiles' = IF loaded THEN cacheFiles ELSE s.files
            /\ clock' = IF cacheFiles' = cacheFiles THEN clock ELSE clock + 1
            /\ ops' = [ops EXCEPT
                          !.last = "loadDirectories",
                          !.newOk = newOk,
                          !.loaded = IF newOk THEN l ELSE <<>>,
                          !.scans = IF loaded THEN 0 ELSE 1,
                          !.exit = IF ~loaded /\ s.err THEN "error" ELSE "run",
                          !.cacheBefore = cacheFiles]
    /\ UNCHANGED <<mode, entries, ignoreDirs, includeHidden, repos, scanning, page,
                   scanCancel, uiBlocked, updates, nruns, runs, chanVars, st, sha256,
                   conc>>

\* runMainTUI: it returns an error when cache.New fails, asks for a scan
\* and exits with status 1 when LoadScanResult fails, and otherwise starts
\* the main view with the records of the cache entry.
runMainTUI ==
    /\ mode = "start"
    /\ ops.last = "none"
    /\ \E newOk \in BOOLEAN, readErr \in {"nil", "EIO"} :
        LET l == LoadScanResult(cacheFiles, WorkspaceRoot, readErr)
        IN  ops' = [ops EXCEPT
                       !.last = "runMainTUI",
                       !.newOk = newOk,
                       !.loaded = IF newOk THEN l ELSE <<>>,
                       !.exit = IF ~newOk THEN "error"
                                ELSE IF l.err THEN "askScan" ELSE "run",
                       !.view = IF newOk /\ ~l.err THEN l.result.DirectoryInfos ELSE @,
                       !.cacheBefore = cacheFiles]
    /\ UNCHANGED <<envVars, viewerVars, chanVars, st, sha256, conc>>

StartNext == loadDirectories \/ runMainTUI

StartSpec == StartInit /\ [][StartNext]_vars

\* The record lists a caller hands to SaveScanResultWithMetadata: a nil and
\* an empty slice, records with and without metadata, and a record of a
\* directory whose name holds a byte that is not valid UTF-8.
SnapshotPool ==
    {NilSlice,
     MakeSlice(<<>>),
     MakeSlice(<<DirectoryInfo(JoinPath(WorkspaceRoot, <<"a">>),
                               CollectGitMetadata(RepoClean))>>),
     MakeSlice(<<[ZeroDirectoryInfo EXCEPT !.Path = JoinPath(OtherRoot, <<"b">>)],
                 DirectoryInfo(JoinPath(OtherRoot, <<"c">>),
                               CollectGitMetadata(RepoDirtyNoHead))>>),
     MakeSlice(<<DirectoryInfo(JoinPath(WorkspaceRoot, <<"d", InvalidByte>>),
                               CollectGitMetadata(RepoNone))>>)}

\* A process that calls the cache directly, the cache holding what an
\* earlier scan of WorkspaceRoot left.
CacheInit ==
    /\ sha256 = KnownDigests
    /\ mode = "cache"
    /\ entries = <<>>
    /\ ignoreDirs = DefaultIgnoreDirs
    /\ includeHidden = FALSE
    /\ repos = RepoStates
    /\ cacheFiles = PriorFiles
    /\ clock = 1
    /\ ViewerInit /\ ChanInit /\ ScanTUIInit
    /\ ops = NoOps
    /\ conc = NoConc

\* c.SaveScanResultWithMetadata(p, s); ops.saved[p] lists what the calls for
\* p wrote since the last one that failed.
CacheSave ==
    /\ mode = "cache"
    /\ ops.saves < MaxSaves
    /\ \E p \in Workspaces, s \in SnapshotPool, write \in WriteOutcomes :
        /\ cacheFiles' = SaveScanResultWithMetadata(cacheFiles, p, clock, s, write)
        /\ clock' = clock + 1
        /\ ops' = [ops EXCEPT !.saves = @ + 1,
                              !.last = "save",
                              !.path = p,
                              !.loaded = <<>>,
                              !.saved[p] = IF write = "ok" THEN Append(@, s) ELSE <<>>]
    /\ UNCHANGED <<mode, entries, ignoreDirs, includeHidden, repos, viewerVars, chanVars,
                   st, sha256, conc>>

\* The path lists a caller hands to SaveScanResult.
DirsPool ==
    {NilSlice,
     MakeSlice(<<JoinPath(WorkspaceRoot, <<"a">>), JoinPath(WorkspaceRoot, <<"b">>)>>)}

\* c.SaveScanResult(p, dirs)
CacheSaveDirs ==
    /\ mode = "cache"
    /\ ops.saves < MaxSaves
    /\ \E p \in Workspaces, dirs \in DirsPool, write \in WriteOutcomes :
        /\ cacheFiles' = SaveScanResult(cacheFiles, p, clock, dirs, write)
        /\ clock' = clock + 1
        /\ ops' = [ops EXCEPT
                      !.saves = @ + 1,
                      !.last = "save",
                      !.path = p,
                      !.loaded = <<>>,
                      !.saved[p] =
                          IF write = "ok"
                          THEN Append(@, MakeSlice([k \in 1..SliceLen(dirs) |->
                                   [ZeroDirectoryInfo EXCEPT !.Path = dirs.elems[k]]]))
                          ELSE <<>>]
    /\ UNCHANGED <<mode, entries, ignoreDirs, includeHidden, repos, viewerVars, chanVars,
                   st, sha256, conc>>

\* result, err := c.LoadScanResult(p)
CacheLoad ==
    /\ mode = "cache"
    /\ \E p \in Workspaces, readErr \in {"nil", "EIO"} :
        ops' = [ops EXCEPT !.last = "load",
                           !.path = p,
                           !.readErr = readErr,
                           !.missing = ~cacheFiles[getCacheFilePath(p)].exists,
                           !.loaded = LoadScanResult(cacheFiles, p, readErr)]
    /\ UNCHANGED <<envVars, viewerVars, chanVars, st, sha256, conc>>

CacheNext == CacheSave \/ CacheSaveDirs \/ CacheLoad

CacheSpec == CacheInit /\ [][CacheNext]_vars

\* c.HasCachedResult(p), and what c.LoadScanResult(p) returns for the same
\* files: a file os.Stat cannot reach, os.ReadFile cannot read.
CacheHas ==
    /\ mode = "cache"
    /\ \E p \in Workspaces, statErr \in {"nil", "EACCES"} :
        ops' = [ops EXCEPT !.last = "has",
                           !.path = p,
                           !.readErr = statErr,
                           !.missing = ~cacheFiles[getCacheFilePath(p)].exists,
                           !.has = HasCachedResult(cacheFiles, p, statErr),
                           !.loaded = LoadScanResult(cacheFiles, p, statErr)]
    /\ UNCHANGED <<envVars, viewerVars, chanVars, st, sha256, conc>>

\* err := c.ClearCache()
CacheClear ==
    /\ mode = "cache"
    /\ \E readDirOk \in BOOLEAN, failAt \in CacheFilePaths \cup {<<>>} :
        LET c == ClearCache(cacheFiles, readDirOk, failAt)
        IN  /\ cacheFiles' = c.files
            /\ ops' = [ops EXCEPT
                          !.last = "clear",
                          !.cleared = ~c.err,
                          !.loaded = <<>>,
                          !.saved = [w \in Workspaces |->
                                        IF c.files[getCacheFilePath(w)].exists
                                        THEN ops.saved[w] ELSE <<>>]]
    /\ UNCHANGED <<mode, entries, ignoreDirs, includeHidden, repos, clock, viewerVars,
                   chanVars, st, sha256, conc>>

\* A process that saves, loads, asks for and clears entries.
HasNext == CacheSave \/ CacheLoad \/ CacheHas \/ CacheClear

HasSpec == CacheInit /\ [][HasNext]_vars

\* The path strings whose cache file path is asked for: two roots and a
\* second spelling of the first.
KeyPaths == Workspaces \cup {WorkspaceRoot \o <<"/">>}

\* The digests of n digits; the digits are cut down to two.
Digests(n) == [1..n -> {"0", "1"}]

\* Calls of GetCacheFilePath.  SHA-256 is taken as some function without
\* collisions of whole digests on the paths in use; a digest has one digit
\* more than the file name keeps of it.
KeyInit ==
    /\ sha256 \in {h \in [KeyPaths -> Digests(PrefixDigits + 1)] :
                       \A p, q \in KeyPaths : p # q => h[p] # h[q]}
    /\ mode = "key"
    /\ entries = <<>>
    /\ ignoreDirs = DefaultIgnoreDirs
    /\ includeHidden = FALSE
    /\ repos = RepoStates
    /\ cacheFiles = [f \in {getCacheFilePath(p) : p \in KeyPaths} |-> NoFile]
    /\ clock = 1
    /\ scanning = FALSE
    /\ page = "main"
    /\ scanCancel = 0
    /\ uiBlocked = FALSE
    /\ updates = <<>>
    /\ directories = NilSlice
    /\ filteredDirs = NilSlice
    /\ nruns = 0
    /\ runs = [r \in Runs |-> IdleRun]
    /\ ChanInit /\ ScanTUIInit
    /\ ops = NoOps
    /\ conc = NoConc

\* c.GetCacheFilePath(p)
GetCacheFilePath ==
    /\ mode = "key"
    /\ Len(ops.keys) < MaxKeys
    /\ \E p \in KeyPaths :
        ops' = [ops EXCEPT !.last = "key",
                           !.path = p,
                           !.keys = Append(@, [path |-> p, key |-> getCacheFilePath(p)])]
    /\ UNCHANGED <<envVars, viewerVars, chanVars, st, sha256, conc>>

KeyNext == GetCacheFilePath

KeySpec == KeyInit /\ [][KeyNext]_vars

\* The processes that have finished a scan of one root and save it.
Savers == 1..MaxSavers

\* The record lists the savers hold: none, one and two records.
ConcPool ==
    {MakeSlice(<<>>),
     MakeSlice(<<DirectoryInfo(JoinPath(WorkspaceRoot, <<"a">>),
                               CollectGitMetadata(RepoClean))>>),
     MakeSlice(<<DirectoryInfo(JoinPath(WorkspaceRoot, <<"a">>),
                               CollectGitMetadata(RepoNone)),
                 DirectoryInfo(JoinPath(WorkspaceRoot, <<"b">>),
                               CollectGitMetadata(RepoDirtyNoHead))>>)}

\* MaxSavers calls of SaveScanResultWithMetadata and one call of
\* LoadScanResult for the same path, each in a process of its own.
ConcInit ==
    /\ sha256 = KnownDigests
    /\ mode = "conc"
    /\ entries = <<>>
    /\ ignoreDirs = DefaultIgnoreDirs
    /\ includeHidden = FALSE
    /\ repos = RepoStates
    /\ cacheFiles = PriorFiles
    /\ clock = 1
    /\ ViewerInit /\ ChanInit /\ ScanTUIInit
    /\ ops = NoOps
    /\ \E p \in Workspaces, infos \in [Savers -> ConcPool] :
        conc = [path |-> p,
                w |-> [i \in Savers |->
                          [pc |-> "start", infos |-> infos[i], data |-> <<>>]],
                l |-> [pc |-> "start", loaded |-> <<>>],
                order |-> <<>>]

AtSave(i, label) == mode = "conc" /\ conc.w[i].pc = label

\* SaveScanResultWithMetadata up to json.MarshalIndent: the ScanResult with
\* time.Now() and its text.
Save_Marshal(i) ==
    /\ AtSave(i, "start")
    /\ conc' = [conc EXCEPT !["w"][i].pc = "marshalled",
                            !["w"][i].data =
                                MarshalScanResult(conc.path, clock, conc.w[i].infos)]
    /\ clock' = clock + 1
    /\ UNCHANGED <<mode, entries, ignoreDirs, includeHidden, repos, cacheFiles,
                   viewerVars, chanVars, st, ops, sha256>>

\* os.WriteFile, first half: OpenFile with O_WRONLY|O_CREATE|O_TRUNC.
Save_OpenTrunc(i) ==
    /\ AtSave(i, "marshalled")
    /\ \E ok \in BOOLEAN :
        IF ok
        THEN /\ cacheFiles' = [cacheFiles EXCEPT ![getCacheFilePath(conc.path)] =
                                   Truncated]
             /\ conc' = [conc EXCEPT !["w"][i].pc = "opened"]
        ELSE /\ conc' = [conc EXCEPT !["w"][i].pc = "failed"]
             /\ UNCHANGED cacheFiles
    /\ UNCHANGED <<mode, entries, ignoreDirs, includeHidden, repos, clock,
                   viewerVars, chanVars, st, ops, sha256>>

\* os.WriteFile, second half: f.Write(data) and f.Close(); the call returns.
Save_Write(i) ==
    /\ AtSave(i, "opened")
    /\ \E ok \in BOOLEAN :
        IF ok
        THEN /\ cacheFiles' = [cacheFiles EXCEPT ![getCacheFilePath(conc.path)] =
                                   WriteFrom0(@, conc.w[i].data)]
             /\ conc' = [conc EXCEPT !["w"][i].pc = "done",
                                     !.order = Append(@, i)]
        ELSE /\ conc' = [conc EXCEPT !["w"][i].pc = "failed"]
             /\ UNCHANGED cacheFiles
    /\ UNCHANGED <<mode, entries, ignoreDirs, includeHidden, repos, clock,
                   viewerVars, chanVars, st, ops, sha256>>

\* LoadScanResult up to the os.Stat test.
Load_Stat ==
    /\ mode = "conc"
    /\ conc.l.pc = "start"
    /\ IF ~cacheFiles[getCacheFilePath(conc.path)].exists
       THEN conc' = [conc EXCEPT !.l = [pc |-> "done",
                                        loaded |-> LoadScanResult(cacheFiles, conc.path,
                                                                  "nil")]]
       ELSE conc' = [conc EXCEPT !.l.pc = "read"]
    /\ UNCHANGED <<envVars, viewerVars, chanVars, st, ops, sha256>>

\* os.ReadFile and json.Unmarshal of what the file holds at that moment.
Load_Read ==
    /\ mode = "conc"
    /\ conc.l.pc = "read"
    /\ conc' = [conc EXCEPT !.l = [pc |-> "done",
                                   loaded |-> LoadScanResult(cacheFiles, conc.path,
                                                             "nil")]]
    /\ UNCHANGED <<envVars, viewerVars, chanVars, st, ops, sha256>>

ConcNext ==
    \/ \E i \in Savers : Save_Marshal(i) \/ Save_OpenTrunc(i) \/ Save_Write(i)
    \/ Load_Stat
    \/ Load_Read

ConcSpec == ConcInit /\ [][ConcNext]_vars

\* A root with BusyEntries plain directories: the worker reports more
\* progress events than progressChan holds.
BusyListing ==
    [k \in 1..BusyEntries |-> [name |-> <<"d", Digits[k + 1]>>, isDir |-> TRUE]]

\* The three pipelines, RunScanWithTUI on the root of BusyListing and with a
\* user who lets the scan run.
BusyInit ==
    /\ sha256 = KnownDigests
    /\ \/ /\ mode = "chan"
          /\ entries = BusyListing
          /\ includeHidden = FALSE
          /\ repos = {RepoNone}
       \/ /\ mode \in {"viewer", "scantui"}
          /\ entries \in Listings(MaxEntries)
          /\ includeHidden \in BOOLEAN
          /\ repos = RepoStates
    /\ ignoreDirs = DefaultIgnoreDirs
    /\ cacheFiles = PriorFiles
    /\ clock = 1
    /\ ViewerInit /\ ChanInit /\ ScanTUIInit
    /\ ops = NoOps
    /\ conc = NoConc

BusyNext ==
    ViewerNext \/ ScanTUINext \/ ChanWorker \/ RecvProgress \/ RecvLog \/ RecvComplete

BusySpec == BusyInit /\ [][BusyNext]_vars


(***************************************************************************)
(* Properties of the scan pipelines.                                       *)
(***************************************************************************)
\* The labels of the TUIApp worker in program order.
PcOrder ==
    <<"L581", "L582", "L593", "L610", "L636", "L639", "L645", "L652", "L672",
      "L673", "L677", "L683", "L684", "L688", "L693", "L696", "L701", "L703",
      "L719", "L534", "done">>

\* The labels at which the worker has not yet executed the step at label l.
UpTo(l) == {PcOrder[i] : i \in {j \in 1..Len(PcOrder) : \A k \in 1..j - 1 : PcOrder[k] # l}}

\* The lines of kind k that run r has put into its progress view or has
\* queued for it.
Shown(r, k) ==
    Len(SelectSeq(runs[r].text, LAMBDA l : l.kind = k))
        + Len(SelectSeq(updates, LAMBDA u : u.owner = r /\ u.kind = "text"
                                             /\ u.line.kind = k))

\* The user left the scan view with 'q' or Ctrl+C before a completion
\* message was handled.
UserQuit == mode = "chan" /\ quit /\ ~m.completed /\ ~ret.err

\* C1 as stated: a run whose cancelScan came before the worker began its
\* cache save (the worker had not yet called cache.New) never calls
\* SaveScanResultWithMetadata and never replaces t.directories.
C1_CancelBeforeSaveNoWrite ==
    \A r \in Runs :
        runs[r].cancelPc \in UpTo("L684")
            => runs[r].saveCalls = 0 /\ ~runs[r].wrote

\* C1 amended: a run whose cancelScan came before the worker executed its
\* check "before saving" never calls SaveScanResultWithMetadata, and a run
\* whose cancelScan came before the worker executed its check "before
\* updating UI" never replaces t.directories.
C1_CancelBeforeCheckNoWrite ==
    \A r \in Runs :
        /\ runs[r].cancelPc \in UpTo("L677") => runs[r].saveCalls = 0
        /\ runs[r].cancelPc \in UpTo("L696") => ~runs[r].wrote

\* A scan cancelled after its first candidate was recorded has ended.
C1_Witness ==
    \E r \in Runs :
        /\ runs[r].cancelPc \in UpTo("L677")
        /\ runs[r].pc = "done"
        /\ SliceLen(runs[r].dirInfos) > 0

\* C2: once the cancellation signal is set the worker does not pass a
\* candidate boundary into the extraction of a further candidate, in
\* performScanWithProgress (the context) and in ScanDirectoriesWithMetadata
\* (the user has quit the scan view).
C2_StopsAtCandidateBoundary ==
    [][/\ \A r \in Runs :
             runs[r].ctxErr /\ runs[r].pc = "L610" => runs'[r].pc # "L636"
       /\ UserQuit /\ cw.pc = "L175" => cw'.pc # "L181"]_vars

\* C3: a run of the TUIApp worker that ended cancelled while a candidate
\* remained has emitted exactly one "Scan canceled" line and no summary.
C3_OneCancelledSignal ==
    \A r \in Runs :
        (/\ runs[r].pc = "done"
         /\ runs[r].ctxErr
         /\ runs[r].saveOutcome = "none"
         /\ runs[r].idx <= Len(entries)
         /\ ~InlineSkips(entries[runs[r].idx], ignoreDirs, includeHidden))
            => Shown(r, "canceled") = 1 /\ Shown(r, "summary") = 0

\* C4: after the user has quit the scan view the worker of RunScanWithTUI
\* writes no cache file and sends no completion message.
C4_QuitStopsSaveAndComplete ==
    [][UserQuit => /\ hist'.saveCalls = hist.saveCalls
                   /\ hist'.completeSent = hist.completeSent]_vars

\* C5: the worker is never held up by a send of a log line: at the send
\* that follows the save the log channel has room.
C5_LogSendNeverBlocks ==
    (mode = "chan" /\ cw.pc = "L535") => Len(logChan) < LogChanCap

\* C6: a worker that has not sent its completion message can still take a
\* step, whatever the consumer does.
C6_CompleteAlwaysSent ==
    mode = "chan" => (hist.completeSent > 0 \/ ENABLED SlowNext)

\* C7: a worker of RunScanWithTUI that has ended has sent exactly one
\* ScanCompleteMsg and closed the three channels; the channels are closed
\* only after that message, and no Progress or Log message is sent after it.
C7_OneTerminalThenClosed ==
    mode = "chan" =>
        /\ hist.completeSent <= 1
        /\ cw.pc = "done" => hist.completeSent = 1 /\ closed
        /\ closed => hist.completeSent = 1 /\ cw.pc = "done"
        /\ hist.sentAfterComplete = 0

\* A scan of a non-empty root has ended and its completion message has been
\* handled.
C7_Witness ==
    /\ mode = "chan"
    /\ cw.pc = "done"
    /\ closed
    /\ hist.progressSent > 1
    /\ m.completed

\* C8: when the enumeration of the root fails, no Progress message and no
\* log line of a candidate is emitted, no candidate is extracted, no cache
\* file is written, and the completion carries the error.
C8_EnumerationFailure ==
    /\ (mode = "chan" /\ cw.err) =>
          /\ hist.progressSent = 0 /\ hist.progressDropped = 0
          /\ hist.logSent = 0 /\ hist.logDropped = 0
          /\ cw.infos = NilSlice
          /\ hist.saveCalls = 0
          /\ cacheFiles = PriorFiles
          /\ \A i \in 1..Len(completeChan) : completeChan[i].Error
          /\ m.completed => m.error
          /\ (ret.returned /\ m.completed) => ret.err /\ ret.results = NilSlice
    /\ \A r \in Runs :
          runs[r].err =>
              /\ Shown(r, "scanning") = 0 /\ Shown(r, "completed") = 0
              /\ Shown(r, "summary") = 0
              /\ runs[r].dirInfos = NilSlice
              /\ runs[r].saveCalls = 0
              /\ ~runs[r].wrote
              /\ (\A q \in Runs : runs[q].saveCalls = 0) => cacheFiles = PriorFiles

\* The enumeration failed, the worker has ended and RunScanWithTUI has
\* returned the error.
C8_Witness ==
    /\ mode = "chan"
    /\ cw.err
    /\ cw.pc = "done"
    /\ m.error
    /\ ret.returned /\ ret.err

\* C9: a run of the TUIApp worker that ended without cancellation after its
\* cache save or its cache initialization failed has reported the failure
\* as a warning line, and has shown its summary.
C9_FailureReportedAsWarning ==
    \A r \in Runs :
        (/\ runs[r].pc = "done"
         /\ ~runs[r].ctxErr
         /\ runs[r].saveOutcome \in {"saveFailed", "newFailed"})
            => Shown(r, "warning") = 1 /\ Shown(r, "summary") = 1

\* C10: what RunScanWithTUI returns is the record list of a completed scan
\* or an error.
C10_ResultOrError ==
    (mode = "chan" /\ ret.returned) => (ret.err \/ m.completed)


\* The entries of the root that a scan has to record.
Eligible(e) ==
    /\ e.isDir
    /\ includeHidden \/ ~(Len(e.name) > 0 /\ e.name[1] = ".")
    /\ \A k \in 1..Len(ignoreDirs) : ignoreDirs[k] # e.name

ExpectedPaths ==
    LET eligible == SelectSeq(entries, Eligible)
    IN  [k \in 1..Len(eligible) |-> WorkspaceRoot \o <<"/">> \o eligible[k].name]

PathsOf(s) == [k \in 1..Len(s.elems) |-> s.elems[k].Path]

Distinct(seq) == \A i, j \in 1..Len(seq) : i # j => seq[i] # seq[j]

\* The record list of a scan that went through all entries.
FullLists ==
    (IF mode = "chan" /\ ~cw.err
        /\ cw.pc \in {"L533", "L535", "L544", "L506", "done"}
     THEN {cw.infos} ELSE {})
    \cup {runs[r].dirInfos : r \in {q \in Runs :
              mode = "viewer"
              /\ runs[q].pc \in {"L677", "L683", "L684", "L688", "L693", "L696",
                                 "L701", "L703", "L719"}}}
    \cup (IF mode = "scantui"
             /\ st.pc \in {"P182", "P183", "P187", "P192", "P206"}
          THEN {st.dirInfos} ELSE {})

\* C11: the record list of a scan that was not cancelled holds the paths of
\* the eligible entries of the root, one record each, in the order of the
\* listing, and no path twice.
C11_OneRecordPerCandidate ==
    \A l \in FullLists : PathsOf(l) = ExpectedPaths /\ Distinct(PathsOf(l))

\* A scan of two candidates, one a repository and one not, has ended.
C11_Witness ==
    /\ mode = "chan"
    /\ cw.pc = "done"
    /\ SliceLen(cw.infos) = 2
    /\ cw.infos.elems[1].GitMetadata.IsGitRepo
    /\ ~cw.infos.elems[2].GitMetadata.IsGitRepo


\* The names of the candidates, in the order of the listing.
ExpectedNames ==
    LET paths == ExpectedPaths
    IN  [k \in 1..Len(paths) |-> Base(paths[k])]

\* The "Scanning" and "Completed" events among the calls of progressCallback.
CallbackEvents ==
    LET ev == [k \in 1..Len(hist.emitted) |->
                  LET msg == hist.emitted[k].Message
                  IN  Line(IF msg[1] = "Scanning: " THEN "scanning"
                           ELSE IF msg[1] = "Completed: " THEN "completed"
                           ELSE "other", Tail(msg))]
    IN  SelectSeq(ev, LAMBDA l : l.kind \in {"scanning", "completed"})

\* The "Scanning" and "Completed" lines run r has passed to QueueUpdateDraw.
ViewerEvents(r) ==
    LET queued == SelectSeq(updates, LAMBDA u : u.owner = r /\ u.kind = "text")
        all == runs[r].text \o [k \in 1..Len(queued) |-> queued[k].line]
    IN  SelectSeq(all, LAMBDA l : l.kind \in {"scanning", "completed"})

IsPrefix(a, b) == Len(a) <= Len(b) /\ a = SubSeq(b, 1, Len(a))

\* ev is "Scanning c1", "Completed c1", "Scanning c2", ... over the
\* candidates in order, or a prefix of that.
InCandidateOrder(ev) ==
    LET names == ExpectedNames
        expected == [i \in 1..(2 * Len(names)) |->
                        Line(IF i % 2 = 1 THEN "scanning" ELSE "completed",
                             names[(i + 1) \div 2])]
    IN  IsPrefix(ev, expected)

RECURSIVE IsSubseq(_, _)
IsSubseq(a, b) ==
    IF a = <<>> THEN TRUE
    ELSE IF b = <<>> THEN FALSE
    ELSE IF Head(a) = Head(b) THEN IsSubseq(Tail(a), Tail(b))
    ELSE IsSubseq(a, Tail(b))

\* C12: in each pipeline the events of the candidates come as "Scanning X",
\* "Completed X" candidate after candidate, and on each of the progress and
\* the log channel the consumer is given the messages in the order they were
\* sent, the messages sent being a subsequence of those emitted.
C12_EventsInOrder ==
    /\ mode = "chan" => InCandidateOrder(CallbackEvents)
    /\ mode = "viewer" => \A r \in Runs : InCandidateOrder(ViewerEvents(r))
    /\ mode = "scantui" =>
           InCandidateOrder(SelectSeq(st.text,
                                      LAMBDA l : l.kind \in {"scanning", "completed"}))
    /\ IsPrefix(hist.pRecv, hist.pSent)
    /\ IsSubseq(hist.pSent, hist.emitted)
    /\ IsPrefix(hist.lRecv, hist.lSent)
    /\ IsSubseq(hist.lSent, hist.lEmitted)

\* The consumer has been given progress events of a scan that lost one to a
\* full channel, the last of them emitted after the lost one.
C12_Witness ==
    /\ mode = "chan"
    /\ hist.progressDropped > 0
    /\ Len(hist.pRecv) > ProgressChanCap
    /\ hist.pRecv # SubSeq(hist.emitted, 1, Len(hist.pRecv))
    /\ Len(hist.lRecv) > Len(InitialLogs(WorkspaceRoot))


\* ScanDirectoriesWithMetadata has the candidate list and has reported it.
CandidatesKnown ==
    /\ mode = "chan"
    /\ ~cw.err
    /\ cw.pc \notin {"L526", "L171"}

\* Among the calls of progressCallback, exactly one is (0, N, msg), N the
\* number of candidates, and it comes before every other call.
OneCountEvent(msg) ==
    LET ev == ProgressMsg(0, Len(ExpectedPaths), msg)
    IN  /\ Cardinality({k \in 1..Len(hist.emitted) : hist.emitted[k] = ev}) = 1
        /\ hist.emitted[1] = ev

\* C13 as stated: once the candidates are known, exactly one progress event
\* with current = 0, total = N and the message "<N> directories to scan" has
\* been emitted, before any event of a candidate.
C13_CountEventAsStated ==
    CandidatesKnown =>
        OneCountEvent(Itoa(Len(ExpectedPaths)) \o <<" directories to scan">>)

\* C13: once the candidates are known, exactly one progress event with
\* current = 0, total = N and the message "Found <N> directories to scan" has
\* been emitted, before any event of a candidate; none is emitted before the
\* enumeration or after a failed one.
C13_FoundEventOnce ==
    /\ CandidatesKnown =>
           OneCountEvent(<<"Found ">> \o Itoa(Len(ExpectedPaths))
                             \o <<" directories to scan">>)
    /\ mode = "chan" /\ ~CandidatesKnown => hist.emitted = <<>>

\* The only candidate of a root of two entries is being processed after the
\* count event, the other entry not counted.
C13_Witness ==
    /\ mode = "chan"
    /\ cw.pc = "L181"
    /\ cw.i = 1
    /\ Len(entries) = 2
    /\ Len(hist.emitted) = 2
    /\ hist.emitted[1] = ProgressMsg(0, 1, <<"Found ", "1", " directories to scan">>)


\* The lines run r has passed to QueueUpdateDraw, shown or still queued.
ViewerLines(r) ==
    LET queued == SelectSeq(updates, LAMBDA u : u.owner = r /\ u.kind = "text")
    IN  runs[r].text \o [k \in 1..Len(queued) |-> queued[k].line]

\* The number of records, of records of a repository and of records with
\* uncommitted changes in a record list.
CountsOf(infos) ==
    LET ix == 1..SliceLen(infos)
        md(k) == infos.elems[k].GitMetadata
    IN  <<SliceLen(infos),
          Cardinality({k \in ix : infos.elems[k].hasMeta /\ md(k).IsGitRepo}),
          Cardinality({k \in ix : infos.elems[k].hasMeta /\ md(k).HasUncommitted})>>

SummariesIn(text) == SelectSeq(text, LAMBDA l : l.kind = "summary")

\* C14: the summary a scan of the viewer or of ScanTUI puts out after it has
\* processed all candidates carries the number of records, the number of
\* records of a repository and the number of records with uncommitted
\* changes, the records being those of all candidates.
C14_SummaryCounts ==
    /\ \A r \in Runs :
           \A k \in 1..Len(SummariesIn(ViewerLines(r))) :
               /\ SummariesIn(ViewerLines(r))[k].name = CountsOf(runs[r].dirInfos)
               /\ SliceLen(runs[r].dirInfos) = Len(ExpectedPaths)
    /\ \A k \in 1..Len(SummariesIn(st.text)) :
           /\ SummariesIn(st.text)[k].name = CountsOf(st.dirInfos)
           /\ SliceLen(st.dirInfos) = Len(ExpectedPaths)

\* A viewer scan of two candidates, one of them a repository with
\* uncommitted changes and one no repository, has shown its summary.
C14_Witness ==
    /\ mode = "viewer"
    /\ \E r \in Runs :
           /\ SummariesIn(runs[r].text) # <<>>
           /\ SummariesIn(runs[r].text)[1].name = <<2, 1, 1>>
           /\ ~runs[r].ctxErr


\* A scan of the root has written its snapshot to the cache.
SavedByScan ==
    \/ mode = "chan" /\ cw.saveOutcome = "saved"
    \/ mode = "viewer" /\ \E r \in Runs : runs[r].saveOutcome = "saved"
    \/ mode = "scantui" /\ st.saveOutcome = "saved"

\* C15: the snapshot a scan of a root without eligible subdirectories saves
\* has count = 0 and a record list that is an empty array, not null.
C15_EmptyRootSavesEmptyList ==
    Len(ExpectedPaths) = 0 /\ SavedByScan =>
        LET data == cacheFiles[getCacheFilePath(WorkspaceRoot)].data
        IN  /\ data.count = 0
            /\ ~data.directory_infos.null
            /\ data.directory_infos.array = <<>>


\* The set of names of the ignore list.
IgnoreSet == {ignoreDirs[k] : k \in 1..Len(ignoreDirs)}

\* The name a returned path ends with.
NameOf(p) == SubSeq(p, Len(WorkspaceRoot) + 2, Len(p))

\* ListTopLevelDirs has returned without error.
Listed == mode = "list" /\ ops.last = "list" /\ ~ops.listed.err

\* C16: ListTopLevelDirs returns no entry whose name is in the ignore set,
\* whatever include_hidden is, and no dot-prefixed name unless include_hidden
\* is true.
C16_NoIgnoredNoHidden ==
    Listed =>
        \A k \in 1..SliceLen(ops.listed.dirs) :
            LET name == NameOf(ops.listed.dirs.elems[k])
            IN  /\ name \notin IgnoreSet
                /\ name[1] = "." => includeHidden

\* With hidden entries included, a hidden directory named in the ignore list
\* was left out and another directory returned.
C16_Witness ==
    /\ Listed
    /\ includeHidden
    /\ <<".", "h">> \in IgnoreSet
    /\ \E i \in 1..Len(entries) : entries[i].name = <<".", "h">> /\ entries[i].isDir
    /\ SliceLen(ops.listed.dirs) = 1

\* C17: when the root can be read, ListTopLevelDirs returns without error
\* the paths, joined to the root, of exactly the entries that are
\* directories, are not in the ignore set and are not dot-prefixed unless
\* hidden entries are included, in the order of the listing.
C17_ExactlyTheEligible ==
    mode = "list" /\ ops.last = "list" /\ ops.readOk =>
        /\ ~ops.listed.err
        /\ ops.listed.dirs.elems = ExpectedPaths

\* A listing with a file between two returned directories.
C17_Witness ==
    /\ Listed
    /\ Len(entries) = 3
    /\ ~entries[2].isDir
    /\ SliceLen(ops.listed.dirs) = 2


\* LoadScanResult(p) has returned, the last save of p having succeeded.
LoadedAfterSave ==
    /\ mode = "cache"
    /\ ops.last = "load"
    /\ ops.readErr = "nil"
    /\ ops.saved[ops.path] # <<>>

\* The record list of the last save of the path that was loaded.
LastSaved == ops.saved[ops.path][Len(ops.saved[ops.path])]

\* C18: load(p) after save(p, s) returns without error a result whose
\* workspace path is p, whose count is the length of s and whose records
\* are those of s, optional metadata fields included.
C18_RoundTrip ==
    LoadedAfterSave =>
        /\ ~ops.loaded.err
        /\ ops.loaded.result.WorkspacePath = ops.path
        /\ ops.loaded.result.Count = SliceLen(LastSaved)
        /\ ops.loaded.result.DirectoryInfos = LastSaved

\* C19: load(p) after save(p, s1) and save(p, s2) returns the records and
\* the count of s2 and nothing of s1.
C19_SecondSaveReplaces ==
    LoadedAfterSave /\ Len(ops.saved[ops.path]) >= 2 =>
        /\ ~ops.loaded.err
        /\ ops.loaded.result.Count = SliceLen(LastSaved)
        /\ ops.loaded.result.DirectoryInfos = LastSaved

\* C20: a call of SaveScanResultWithMetadata(p, s) leaves unchanged what
\* LoadScanResult returns for every workspace path other than p, whatever
\* saves of the two roots came before.
C20_OtherEntriesUnchanged ==
    [][ops'.last = "save" /\ ops'.saves # ops.saves =>
           \A q \in Workspaces \ {ops'.path} :
               LoadScanResult(cacheFiles', q, "nil") = LoadScanResult(cacheFiles, q, "nil")]_vars

\* A save of one root has succeeded after a save of the other root, whose
\* entry a load would still return.
C20_Witness ==
    /\ mode = "cache"
    /\ ops.last = "save"
    /\ ops.path = OtherRoot
    /\ ops.saved[OtherRoot] # <<>>
    /\ Len(ops.saved[WorkspaceRoot]) = 2
    /\ LoadScanResult(cacheFiles, WorkspaceRoot, "nil").result.DirectoryInfos
           = ops.saved[WorkspaceRoot][2]
    /\ cacheFiles[getCacheFilePath(OtherRoot)].data.scanned_at
           > cacheFiles[getCacheFilePath(WorkspaceRoot)].data.scanned_at


\* C21 as stated: the same path string gives the same key each time, two
\* different path strings give different keys, two spellings of one root
\* among them.
C21_KeysAsStated ==
    \A i, j \in 1..Len(ops.keys) :
        ops.keys[i].path = ops.keys[j].path <=> ops.keys[i].key = ops.keys[j].key

\* C21: the same path string gives the same key each time, and two path
\* strings, two spellings of one root among them, have the same key only if
\* the digests of the two strings agree in the digits the file name keeps.
C21_KeyOfExactString ==
    \A i, j \in 1..Len(ops.keys) :
        /\ ops.keys[i].path = ops.keys[j].path => ops.keys[i].key = ops.keys[j].key
        /\ ops.keys[i].key = ops.keys[j].key =>
               SubSeq(sha256[ops.keys[i].path], 1, PrefixDigits)
                   = SubSeq(sha256[ops.keys[j].path], 1, PrefixDigits)

\* The key of a root was computed twice and the key of its other spelling
\* once, the digests of the two spellings differing in their first digit.
C21_Witness ==
    /\ mode = "key"
    /\ Len(ops.keys) = 3
    /\ ops.keys[1].path = WorkspaceRoot
    /\ ops.keys[2].path = WorkspaceRoot
    /\ ops.keys[3].path = WorkspaceRoot \o <<"/">>
    /\ ops.keys[1].key = ops.keys[2].key
    /\ ops.keys[3].key # ops.keys[1].key


\* C22: LoadScanResult of a path without cache file returns the "no cached
\* scan result found" error, which wraps no other error, and a load of an
\* existing file never does: its read failure and its decode failure are
\* errors with other texts that wrap their cause.
C22_NotFoundIsDistinct ==
    mode = "cache" /\ ops.last = "load" =>
        /\ ops.missing => ops.loaded.err /\ ops.loaded.error = NotFoundError
        /\ ~ops.missing =>
               /\ ops.loaded.error.msg # NotFoundError.msg
               /\ ops.loaded.err => ops.loaded.error.wraps # "nil"
               /\ ops.readErr # "nil" => ops.loaded.error = ReadError(ops.readErr)

\* A load of a path that was never saved has returned, the file of the other
\* path being one whose load fails to decode.
C22_Witness ==
    /\ mode = "cache"
    /\ ops.last = "load"
    /\ ops.path = OtherRoot
    /\ ops.missing
    /\ ops.loaded.error = NotFoundError
    /\ cacheFiles[getCacheFilePath(WorkspaceRoot)] = Truncated


\* What a load returns for a whole entry with the given text.
Loaded(data) == [err |-> FALSE, error |-> NoError, result |-> UnmarshalScanResult(data)]

\* C23: a LoadScanResult that runs while SaveScanResultWithMetadata calls
\* for the same path run returns the entry the cache held before (the
\* not-found error if it held none) or the whole snapshot of one of the
\* saves, never a decode error.
C23_LoadSeesWholeEntry ==
    mode = "conc" /\ conc.l.pc = "done" =>
        \/ conc.l.loaded = LoadScanResult(PriorFiles, conc.path, "nil")
        \/ \E i \in Savers :
               /\ conc.w[i].data # <<>>
               /\ conc.l.loaded = Loaded(conc.w[i].data)

\* C24: once all saves of the root have returned without error, a load
\* returns the snapshot of the save that returned last.
C24_LastSaveWins ==
    mode = "conc" /\ (\A i \in Savers : conc.w[i].pc = "done") =>
        LoadScanResult(cacheFiles, conc.path, "nil")
            = Loaded(conc.w[conc.order[Len(conc.order)]].data)


\* C25: in every whole cache entry count is the length of directory_infos,
\* and directories has that length and holds the path of each record at the
\* record's position.
C25_CountAndDirectories ==
    \A f \in DOMAIN cacheFiles :
        Decodes(cacheFiles[f]) =>
            LET data == cacheFiles[f].data
                n == Len(data.directory_infos.array)
            IN  /\ data.count = n
                /\ ~data.directories.null
                /\ Len(data.directories.array) = n
                /\ \A i \in 1..n :
                       data.directories.array[i] = data.directory_infos.array[i].path

\* The cache holds an entry of two records saved with metadata, one of them
\* without git metadata, and an entry saved from a list of paths.
C25_Witness ==
    /\ mode = "cache"
    /\ \E f, g \in DOMAIN cacheFiles :
           /\ Decodes(cacheFiles[f]) /\ Decodes(cacheFiles[g])
           /\ cacheFiles[f].data.count = 2
           /\ "git_metadata" \in DOMAIN cacheFiles[f].data.directory_infos.array[2]
           /\ cacheFiles[g].data.count = 2
           /\ "git_metadata" \notin DOMAIN cacheFiles[g].data.directory_infos.array[2]


\* The repository CollectGitMetadata was applied to.
Collected == mode = "git" /\ ops.last = "collect"

TheRepo == CHOOSE repo \in repos : TRUE

\* Every step succeeded and every entry of the status map is a changed file.
ChangedOnly(repo) ==
    /\ repo.openOk /\ repo.worktreeOk /\ repo.statusOk
    /\ \A k \in 1..Len(repo.status) :
           repo.status[k].staging # Unmodified \/ repo.status[k].worktree # Unmodified

RECURSIVE Concat(_)
Concat(parts) == IF parts = <<>> THEN <<>> ELSE parts[1] \o Concat(Tail(parts))

Min(a, b) == IF a < b THEN a ELSE b

\* min(n, 5) entries "<index-code><worktree-code> <path>" joined by "; ",
\* then " ... (n-5 more)" exactly when n > 5.
SummaryAsStated(status) ==
    LET n == Len(status)
        shown == Min(n, 5)
    IN  Concat([i \in 1..shown |->
                   (IF i > 1 THEN <<";", " ">> ELSE <<>>)
                       \o <<status[i].staging, status[i].worktree, " ">>
                       \o status[i].file])
            \o (IF n > 5 THEN <<" ... (">> \o Itoa(n - 5) \o <<" more)">> ELSE <<>>)

\* C26: for a status of n changed files, n = 0 gives "clean" and
\* has_uncommitted false; n > 0 gives min(n, 5) entries joined by "; ",
\* followed by " ... (n-5 more)" if and only if n > 5.
C26_SummaryFormat ==
    (Collected /\ ChangedOnly(TheRepo)) =>
        LET n == Len(TheRepo.status)
        IN  IF n = 0
            THEN /\ ops.metadata.StatusSummary = <<"clean">>
                 /\ ~ops.metadata.HasUncommitted
            ELSE ops.metadata.StatusSummary = SummaryAsStated(TheRepo.status)

\* The summary of a status of seven changed files has been built.
C26_Witness ==
    /\ Collected /\ ChangedOnly(TheRepo)
    /\ Len(TheRepo.status) = 7
    /\ ops.metadata.StatusSummary =
           SummaryAsStated(SubSeq(TheRepo.status, 1, 5)) \o <<" ... (", "2", " more)">>

\* C27: has_uncommitted is true if and only if status_summary is neither
\* empty nor "clean", whatever the steps and the status map yield.
C27_UncommittedIffSummary ==
    Collected =>
        (ops.metadata.HasUncommitted <=>
            ops.metadata.StatusSummary \notin {<<>>, <<"clean">>})

\* The metadata of a status map that holds an unmodified file only has been
\* collected.
C27_Witness ==
    /\ Collected
    /\ TheRepo.openOk /\ TheRepo.worktreeOk /\ TheRepo.statusOk
    /\ TheRepo.status = <<UnmodifiedFile>>
    /\ ~ops.metadata.HasUncommitted
    /\ ops.metadata.StatusSummary = <<"clean">>

\* The reference of the remote URL: origin's first URL if origin has one,
\* otherwise the first URL of the first remote other than origin, otherwise
\* empty.
RemoteURLAsStated(remotes) ==
    LET origins == SelectSeq(remotes, LAMBDA r : r.name = <<"origin">> /\ Len(r.urls) > 0)
        others == SelectSeq(remotes, LAMBDA r : r.name # <<"origin">>)
    IN  IF Len(origins) > 0 THEN origins[1].urls[1]
        ELSE IF Len(others) > 0 /\ Len(others[1].urls) > 0 THEN others[1].urls[1]
        ELSE <<>>

\* C28: remote_url is the first URL of origin if origin has one, otherwise
\* the first URL of the first remote other than origin, otherwise empty.
C28_RemoteURLAsStated ==
    (Collected /\ TheRepo.openOk /\ TheRepo.remotesOk) =>
        ops.metadata.RemoteURL = RemoteURLAsStated(TheRepo.remotes)


\* What the claim says of the metadata of a repository whose steps fail as
\* its flags say: a failed step leaves its own fields empty, and the fields
\* of the other steps are what those steps found.
FieldsAsStated(repo, md) ==
    IF ~repo.openOk
    THEN md = ZeroMetadata
    ELSE /\ md.IsGitRepo
         /\ md.RemoteURL = IF repo.remotesOk THEN RemoteURLOf(repo.remotes) ELSE <<>>
         /\ md.CurrentBranch = IF repo.headOk THEN Short(repo.head) ELSE <<>>
         /\ IF repo.worktreeOk /\ repo.statusOk
            THEN /\ md.HasUncommitted = ~IsClean(repo.status)
                 /\ md.StatusSummary = StatusSummaryOf(repo.status)
            ELSE /\ ~md.HasUncommitted
                 /\ md.StatusSummary = <<>>

\* The number of directories the worker has dealt with.
Dealt ==
    IF cw.pc \in {"L526", "L528", "L171"} THEN 0
    ELSE IF cw.pc \in {"L175", "L181"} THEN cw.i - 1
    ELSE IF cw.pc = "L196" THEN cw.i
    ELSE SliceLen(cw.dirs)

\* C29: whatever steps fail, the directory gets a record with metadata in
\* which only the fields of the failed steps are empty, the worker takes the
\* error path for a failed listing only, and a worker that ends after a
\* listing that succeeded has sent one completion with every record and no
\* error.
C29_ExtractionNeverFailsScan ==
    mode = "chan" =>
        /\ \A repo \in repos : FieldsAsStated(repo, CollectGitMetadata(repo))
        /\ \A k \in 1..Dealt :
               /\ cw.infos.elems[k].Path = cw.dirs.elems[k]
               /\ cw.infos.elems[k].hasMeta
               /\ \E repo \in repos : FieldsAsStated(repo, cw.infos.elems[k].GitMetadata)
        /\ cw.err => (cw.dirs = NilSlice /\ cw.infos = NilSlice)
        /\ (cw.pc \in {"L506", "done"} /\ ~cw.err) =>
               /\ hist.completeSent = 1
               /\ SliceLen(cw.infos) = SliceLen(cw.dirs)
               /\ \A c \in 1..Len(completeChan) :
                      completeChan[c] = ScanCompleteMsg(cw.infos, FALSE)
               /\ m.completed => (~m.error /\ m.results = cw.infos)

\* The worker has ended the scan of a root with one directory, a repository
\* whose head and status steps failed, and the view has been told of the
\* completion.
C29_Witness ==
    /\ mode = "chan" /\ cw.pc = "done" /\ ~cw.err /\ m.completed /\ ~m.error
    /\ SliceLen(cw.infos) = 1
    /\ cw.infos.elems[1].GitMetadata.IsGitRepo
    /\ cw.infos.elems[1].GitMetadata.CurrentBranch = <<>>
    /\ cw.infos.elems[1].GitMetadata.RemoteURL # <<>>
    /\ cw.infos.elems[1].GitMetadata.StatusSummary = <<>>


\* The scan workers that have been started and have not run to their end.
RunningWorkers == {r \in Runs : runs[r].pc \notin {"idle", "done"}}

\* C30: in the viewer at most one scan worker is running at any time; every
\* worker started earlier has ended when startScan has started a new one.
C30_OneWorkerAtATime ==
    mode = "viewer" =>
        /\ Cardinality(RunningWorkers) <= 1
        /\ \A r \in Runs : r < nruns => runs[r].pc = "done"

\* A second scan is running, the first one having run to its end.
C30_Witness ==
    /\ mode = "viewer"
    /\ nruns = 2
    /\ runs[1].pc = "done"
    /\ RunningWorkers = {2}
    /\ runs[2].dirInfos # NilSlice


\* A step of the UI event loop: it runs the update at the head of the queue.
EventLoopStep == updates # <<>> /\ updates' = Tail(updates)

\* C31: t.directories and t.filteredDirs are written on the UI event loop
\* only; a worker goroutine publishes its result through a queued update and
\* never writes the fields itself.
C31_WrittenOnEventLoopOnly ==
    [][(mode = "viewer" /\ (directories' # directories \/ filteredDirs' # filteredDirs))
           => EventLoopStep]_vars


\* Run r has been started, has not run to its end and has not been
\* cancelled.
RunningUncancelled(r) == runs[r].pc \notin {"idle", "done"} /\ ~runs[r].ctxErr

\* C32: while a scan is running and has not been cancelled, t.scanning is
\* set and the scan page is shown; no completion update of an earlier scan
\* is in the queue.
C32_ScanningWhileRunning ==
    mode = "viewer" =>
        \A r \in Runs :
            RunningUncancelled(r) =>
                /\ scanning
                /\ page = "scan"
                /\ \A k \in 1..Len(updates) :
                       updates[k].kind \in {"scanDone", "cancelDone"} =>
                           updates[k].owner \notin 1..(r - 1)

\* The second scan is running, uncancelled, after the completion update of
\* the first one has cleared the flag and 's' has set it again.
C32_Witness ==
    /\ mode = "viewer"
    /\ nruns = 2
    /\ RunningUncancelled(2)
    /\ runs[1].pc = "done" /\ ~runs[1].ctxErr /\ ~runs[1].waiting
    /\ scanning


\* C33: after startScan, t.scanning becomes false again and the main page is
\* shown, whether the scan ends normally, fails at the enumeration or is
\* cancelled.  In finite-run form: while t.scanning is set, the event loop
\* or a worker can still take a step.
C33_ScanningCanBeCleared ==
    (mode = "viewer" /\ scanning) => ENABLED ViewerNext


\* Every event of ev has the total n and a current between 0 and n, and the
\* currents do not decrease along ev.
Monotone(ev, n) ==
    /\ \A k \in 1..Len(ev) :
           ev[k].Total = n /\ 0 <= ev[k].Current /\ ev[k].Current <= n
    /\ \A k \in 1..(Len(ev) - 1) : ev[k].Current <= ev[k + 1].Current

\* C34: the progress events of a run carry one total N and a current that
\* stays within 0..N and never decreases in emission order; the Model shows
\* the last event it was given, so its (current, total) never moves back and
\* never exceeds the total, whichever events the full channel dropped.
C34_ProgressMonotone ==
    mode = "chan" =>
        /\ Monotone(hist.emitted, SliceLen(cw.dirs))
        /\ Monotone(hist.pRecv, SliceLen(cw.dirs))
        /\ m.current <= m.total
        /\ IF hist.pRecv = <<>>
           THEN m.current = 0 /\ m.total = 0
           ELSE /\ m.current = hist.pRecv[Len(hist.pRecv)].Current
                /\ m.total = SliceLen(cw.dirs)

\* The Model shows the last event of a run of which the channel dropped
\* events.
C34_Witness ==
    /\ mode = "chan"
    /\ hist.progressDropped > 0
    /\ m.total = BusyEntries
    /\ m.current = m.total


\* The number of calls of progressCallback that carried the message msg.
TimesEmitted(msg) ==
    Cardinality({k \in 1..Len(hist.emitted) : hist.emitted[k].Message = msg})

\* C35: a status message the worker emitted once through the progress
\* callback is in the log buffer of the Model at most once.
C35_LoggedAtMostOnce ==
    mode = "chan" =>
        \A k \in 1..Len(hist.emitted) :
            LET msg == hist.emitted[k].Message
            IN  TimesEmitted(msg) = 1 => CopiesIn(msg, m.logs) <= 1


\* What ScanDirectoriesWithMetadata returns for the listing of the root when
\* the extraction yields, directory by directory, the metadata of infos.
LibraryResult(infos) ==
    ScanDirectoriesWithMetadata(WorkspaceRoot, TRUE, entries, ignoreDirs, includeHidden,
                                [k \in 1..Len(infos.elems) |-> infos.elems[k].GitMetadata])

\* infos is the record list the library scan returns for the same listing,
\* ignore list, flag and extraction results.
SameAsLibrary(infos) ==
    /\ Len(infos.elems) = Len(ExpectedPaths)
    /\ infos = LibraryResult(infos).infos

\* C36: the record list an uncancelled performScanWithProgress or
\* ScanTUI.performScan hands to the cache is the list
\* ScanDirectoriesWithMetadata over ListTopLevelDirs returns for the same
\* listing, ignore list, flag and extraction results.
C36_InlineEqualsLibrary ==
    /\ mode = "viewer" =>
           \A r \in Runs :
               runs[r].saveOutcome \in {"saved", "saveFailed"} =>
                   SameAsLibrary(runs[r].dirInfos)
    /\ mode = "scantui" =>
           (st.saveOutcome \in {"saved", "saveFailed"} => SameAsLibrary(st.dirInfos))
    /\ mode = "chan" =>
           (cw.saveOutcome \in {"saved", "saveFailed"} => SameAsLibrary(cw.infos))


\* C37: when a scan started from the main view fails at the enumeration, the
\* cache entry of the workspace is as it was when the scan started and,
\* after the reload, the view shows the records it showed before the scan.
C37_FailedScanChangesNothing ==
    (mode = "chan" /\ ops.scans > 0 /\ cw.err) =>
        /\ cacheFiles[getCacheFilePath(WorkspaceRoot)]
               = ops.cacheBefore[getCacheFilePath(WorkspaceRoot)]
        /\ ops.last = "reload" => ops.view = ops.before

\* The records of the entry of the workspace as the cache held it when the
\* viewer started.
CachedRecords ==
    UnmarshalScanResult(ops.cacheBefore[getCacheFilePath(WorkspaceRoot)].data).DirectoryInfos

\* The start of the viewer found a cache entry it could load.
LoadSucceeded == ops.newOk /\ ~ops.loaded.err

\* The records are those of a scan of the root made now: one per candidate,
\* in order, with what the extraction gives for a repository state in use.
FreshRecords(infos) ==
    /\ ~infos.isNil
    /\ PathsOf(infos) = ExpectedPaths
    /\ \A k \in 1..Len(infos.elems) :
           /\ infos.elems[k].hasMeta
           /\ infos.elems[k].GitMetadata \in {CollectGitMetadata(repo) : repo \in repos}

\* C38: a viewer that loads the cache entry makes no scan, leaves the cache
\* as it is and shows the records of the entry; when the load fails,
\* TUIApp shows the records of a scan it makes then or ends with the error
\* of that scan, showing nothing, and runMainTUI shows nothing and exits
\* asking for a scan.
C38_StartFromCacheOrScan ==
    /\ (mode = "start" /\ ops.last = "loadDirectories") =>
           IF LoadSucceeded
           THEN /\ ops.scans = 0
                /\ cacheFiles = ops.cacheBefore
                /\ ops.exit = "run"
                /\ directories = CachedRecords
                /\ filteredDirs = directories
           ELSE /\ ops.scans = 1
                /\ ops.exit \in {"run", "error"}
                /\ ops.exit = "run" => FreshRecords(directories) /\ filteredDirs = directories
                /\ ops.exit = "error" => directories = NilSlice /\ filteredDirs = NilSlice
    /\ (mode = "start" /\ ops.last = "runMainTUI" /\ ops.newOk) =>
           IF LoadSucceeded
           THEN /\ ops.exit = "run"
                /\ ops.view = CachedRecords
                /\ cacheFiles = ops.cacheBefore
           ELSE /\ ops.exit = "askScan"
                /\ ops.view = NilSlice
                /\ cacheFiles = ops.cacheBefore

\* The entry of an earlier scan is in the cache but cannot be read, and the
\* viewer shows the record of the scan it made instead.
C38_Witness ==
    /\ mode = "start"
    /\ ops.last = "loadDirectories"
    /\ ops.newOk
    /\ ops.loaded.err
    /\ ops.cacheBefore = PriorFiles
    /\ ops.exit = "run"
    /\ Len(directories.elems) > 0
    /\ directories # PriorInfos

\* C39: HasCachedResult(p) answers true exactly when LoadScanResult(p), on
\* the same files, returns something other than the error of a missing
\* entry.
C39_HasIffLoadFinds ==
    (mode = "cache" /\ ops.last = "has") =>
        (ops.has <=> ops.loaded.error # NotFoundError)


=============================================================================
